---- MODULE Spec2Model ----
(***************************************************************************)
(* Verification model of the autonomous decision core of the brand         *)
(* reputation system:                                                      *)
(*   - the approval policy of IntelligentResponseAgent                      *)
(*     (backend/app/agents/response_generation_agent.py), and              *)
(*   - the workflow graph of LangGraphAutonomousOrchestrator               *)
(*     (backend/app/agents/langgraph_orchestrator.py).                     *)
(*                                                                         *)
(* Numbers.  Every score of the policy is a float in [0,1]; the model      *)
(* holds it as an integer count of 1/10000 (Scale), which represents every *)
(* constant of the code exactly (0.3 = 3000, 0.05*0.25 = 125, ...).  The   *)
(* comparisons keep the strictness of the code.  Rounding of binary        *)
(* floating point is not modelled.                                         *)
(*                                                                         *)
(* Exceptions.  A Python call either returns a value or raises.  An        *)
(* operator that models a call returns a record with a field raised; a     *)
(* try/except block is the IF on that field.                               *)
(***************************************************************************)
EXTENDS Integers, Sequences, FiniteSets, TLC

VARIABLES
    settings,   \* the two risk thresholds of app.core.config.settings
    policy,     \* the last call of _make_autonomous_approval_decision
    agents,     \* LangGraphAutonomousOrchestrator.agents (ids registered)
    use_fallback, \* LangGraphAutonomousOrchestrator.use_fallback
    pc,         \* position of the run: "idle", a node, a router, "END", ...
    state,      \* the AgentWorkflowState of the run
    supersteps, \* node executions of the run so far
    route,      \* the last value a routing function returned
    last,       \* the last node executed and what became of it
    executions, \* history: how often each node was executed in the run
    report,     \* the value execute_autonomous_goal returned
    now,        \* time.time(), in hours; calls at the same hour are calls
                \* within one second
    historical_data, \* AlertManagementAgent.historical_data
    active_alerts,   \* AlertManagementAgent.active_alerts
    alert_history,   \* AlertManagementAgent.alert_history
    alert_stats,     \* AlertManagementAgent.alert_stats
    task,       \* the last call of AlertManagementAgent.process_task
    calls,      \* history: calls of process_task so far
    ever_active,     \* history: every alert that was stored in active_alerts
    sorting,    \* the last direct call of _process_alerts
    message_queue,  \* LangChainBaseAgent.message_queue of every worker
    stalled,    \* the workers whose message loop takes no message any more
    raising,    \* the workers whose receive_message raises
    consumed,   \* history: messages the workers took from their inboxes
    par,        \* the call of LangChainOrchestrator._execute_parallel
    message_router, \* AgentOrchestrator.message_router
    router,     \* position of AgentOrchestrator._route_messages
    system_metrics, \* AgentOrchestrator.system_metrics
    callers,    \* the callers of the two route_message methods
    active_monitoring, \* DataCollectionAgent.active_monitoring
    loops,      \* the tasks created for _monitoring_loop, in order of creation
    monitor_call,\* the last start_monitoring or stop_monitoring handled
    orchestration_tasks, \* every OrchestrationTask created, in order of creation
    active_tasks, \* LangChainOrchestrator.active_tasks (positions in orchestration_tasks)
    completed_tasks, \* LangChainOrchestrator.completed_tasks
    orchestration_metrics, \* LangChainOrchestrator.orchestration_metrics
    agent_performance, \* LangChainOrchestrator.agent_performance
    finished,\* history: outcome and duration of every task that finished
    contexts, \* the context dicts: that of the caller, then those the calls created
    runs, \* the calls of execute_autonomous_goal, in order of their start
    clock,\* datetime.now().timestamp() in whole seconds
    batch, \* the call of batch_generate_responses in progress
    response_metrics,\* IntelligentResponseAgent.response_metrics
    registered_agents, \* the keys of LangChainOrchestrator.registered_agents, in insertion order
    agent_capabilities, \* LangChainOrchestrator.agent_capabilities
    agent_availability, \* LangChainOrchestrator.agent_availability
    selection,\* the last call of _select_agents_by_capability
    llm, \* whether LangChainBaseAgent.llm is set
    agent_status, \* LangChainBaseAgent.status
    start_pc, \* where the coroutine of start() is
    inbox, \* the size of the message_queue of the agent that start() runs on
    received, \* how many messages receive_message has put
    shutdown_called, \* whether shutdown() has been called
    direct \* a call of think_and_act from outside the message loop

policyVars == <<settings, policy>>
workflowVars == <<agents, use_fallback, pc, state, supersteps, route, last, executions, report>>
alertVars == <<now, historical_data, active_alerts, alert_history, alert_stats,
               task, calls, ever_active, sorting>>
\* everything outside the approval policy and the workflow graph
messagingVars == <<message_queue, stalled, raising, consumed, par, message_router,
                   router, system_metrics, callers>>
monitoringVars == <<active_monitoring, loops, monitor_call>>
orchestrationVars == <<orchestration_tasks, active_tasks, completed_tasks, orchestration_metrics, agent_performance, finished>>
runVars == <<contexts, runs, clock>>
batchVars == <<batch, response_metrics>>
registryVars == <<registered_agents, agent_capabilities, agent_availability, selection>>
lifecycleVars == <<llm, agent_status, start_pc, inbox, received, shutdown_called, direct>>
serviceVars == <<alertVars, messagingVars, monitoringVars, orchestrationVars, runVars, batchVars, registryVars, lifecycleVars>>
vars == <<settings, policy, agents, use_fallback, pc, state, supersteps, route, last,
          executions, report, serviceVars>>

----------------------------------------------------------------------------
(* Helpers *)

Min(a, b) == IF a < b THEN a ELSE b

Max(a, b) == IF a > b THEN a ELSE b

Scale == 100 * 100

Raised == [raised |-> TRUE]

----------------------------------------------------------------------------
(* Bounds of the inputs *)

MaxTopicHits == 1

MaxCommitmentHits == 1

----------------------------------------------------------------------------
(* Configuration: app.core.config.Settings.  The two thresholds are        *)
(* independent float fields read from the environment; nothing relates     *)
(* one to the other.  DefaultSettings is what the file sets.               *)

AUTO_RESPONSE_RISK_THRESHOLD == 3000

HUMAN_REVIEW_RISK_THRESHOLD == 7000

DefaultSettings ==
    [AUTO_RESPONSE_RISK_THRESHOLD |-> AUTO_RESPONSE_RISK_THRESHOLD,
     HUMAN_REVIEW_RISK_THRESHOLD |-> HUMAN_REVIEW_RISK_THRESHOLD]

\* Environments the service is started with: the defaults, a lowered
\* review threshold, a raised auto-approve threshold, and both.
SettingsChoices ==
    {DefaultSettings,
     [DefaultSettings EXCEPT !.HUMAN_REVIEW_RISK_THRESHOLD = 4000],
     [DefaultSettings EXCEPT !.AUTO_RESPONSE_RISK_THRESHOLD = 5000],
     [AUTO_RESPONSE_RISK_THRESHOLD |-> 5000, HUMAN_REVIEW_RISK_THRESHOLD |-> 4000]}

----------------------------------------------------------------------------
(* Inputs of one approval decision.                                        *)
(*   quality         quality_assessment: whether it has the key            *)
(*                   "quality_score", and the score in tenths              *)
(*   sentiment       mention["sentiment"]                                  *)
(*   high_engagement likes > 100 or retweets > 50 or shares > 25           *)
(*   topics          the high-risk topics found in response or mention     *)
(*   commitments     how many commitment phrases the response contains     *)
(*   length          len(response): "short" < 20, "long" > 500             *)
(*   crisis_detected mention["crisis_indicators"]["crisis_detected"]       *)
(*   platform        mention["platform"], lower-cased                      *)
(*   business_hours  9 <= hour <= 17 on a weekday, at the time of the call *)
(*   crisis_mode     brand_context["crisis_mode"]                          *)

high_risk_topics ==
    {"lawsuit", "legal", "court", "sue", "attorney", "lawyer",
     "discrimination", "harassment", "bias", "racist", "sexist",
     "medical", "health", "diagnosis", "treatment", "medication",
     "financial", "investment", "stock", "price", "earnings"}

TopicSample == {"legal", "medical", "price"}

QualityAssessments ==
    {[has_score |-> TRUE, quality_score |-> q] : q \in {0, 5, 10}}
    \cup {[has_score |-> FALSE, quality_score |-> 0]}

Sentiments == {"negative", "neutral", "positive"}

Platforms == {"twitter", "linkedin", "reddit"}

Lengths == {"short", "normal", "long"}

PolicyInputs ==
    [quality : QualityAssessments,
     sentiment : Sentiments,
     high_engagement : BOOLEAN,
     topics : {t \in SUBSET (TopicSample \cap high_risk_topics) : Cardinality(t) <= MaxTopicHits},
     commitments : 0..MaxCommitmentHits,
     length : Lengths,
     crisis_detected : BOOLEAN,
     platform : Platforms,
     business_hours : BOOLEAN,
     crisis_mode : BOOLEAN]

\* The internal step that raises in this call, if it is executed.
Faults ==
    {"none", "risk_score", "content_risk", "contextual_decision",
     "reviewer_suggestion", "review_alert"}

----------------------------------------------------------------------------
(* _analyze_content_risk *)

\* a content risk that is not capped
AnalyzeContentRiskUncapped(in, fault) ==
    IF fault = "content_risk" THEN Raised
    ELSE
    LET topic_score == 1000 * Cardinality(in.topics)
        commitment_score == 500 * in.commitments
        length_score == IF in.length = "short" THEN 1000
                        ELSE IF in.length = "long" THEN 500 ELSE 0
        risk_score == topic_score + commitment_score + length_score
    IN  [raised |-> FALSE,
         risk_score |-> risk_score,
         risk_factors |->
             {<<"high_risk_topic", t>> : t \in in.topics}
             \cup (IF in.commitments > 0 THEN {<<"strong_commitment_language", "">>} ELSE {})
             \cup (IF in.length = "short" THEN {<<"response_too_short", "">>}
                   ELSE IF in.length = "long" THEN {<<"response_very_long", "">>} ELSE {})]
\* lines 667-706
AnalyzeContentRisk(in, fault) ==
    IF fault = "content_risk" THEN Raised
    ELSE
    LET topic_score == 1000 * Cardinality(in.topics)
        commitment_score == 500 * in.commitments
        length_score == IF in.length = "short" THEN 1000
                        ELSE IF in.length = "long" THEN 500 ELSE 0
        risk_score == topic_score + commitment_score + length_score
    IN  [raised |-> FALSE,
         risk_score |-> Min(Scale, risk_score),
         risk_factors |->
             {<<"high_risk_topic", t>> : t \in in.topics}
             \cup (IF in.commitments > 0 THEN {<<"strong_commitment_language", "">>} ELSE {})
             \cup (IF in.length = "short" THEN {<<"response_too_short", "">>}
                   ELSE IF in.length = "long" THEN {<<"response_very_long", "">>} ELSE {})]

(* _calculate_comprehensive_risk_score *)

\* a normalisation that caps the score at one quarter
NormalizeRiskScoreQuarter(risk_score) == Min(Scale \div 4, Max(0, risk_score))

\* risk_score = min(1.0, max(0.0, risk_score)) (line 648)
NormalizeRiskScore(risk_score) == Min(Scale, Max(0, risk_score))

CalculateComprehensiveRiskScore(in, fault) ==
    IF fault = "risk_score" THEN Raised
    ELSE
    LET quality_score == IF in.quality.has_score
                         THEN 1000 * in.quality.quality_score ELSE 5000
        quality_risk == ((Scale - quality_score) * 3) \div 10
        sentiment_risk == IF in.sentiment = "negative" THEN 500
                          ELSE IF in.sentiment = "positive" THEN 125 ELSE 250
        virality_risk == IF in.high_engagement THEN 600 ELSE 200
        content_risks == AnalyzeContentRisk(in, fault)
    IN  IF content_risks.raised THEN Raised
        ELSE
        LET content_risk == (content_risks.risk_score * 15) \div 100
            crisis_risk == IF in.crisis_detected THEN 400 ELSE 50
            risk_score == quality_risk + sentiment_risk + virality_risk
                          + content_risk + crisis_risk
        IN  [raised |-> FALSE,
             overall_risk_score |-> NormalizeRiskScore(risk_score),
             risk_factors |->
                 (IF quality_score < 6000 THEN {<<"low_response_quality", "">>} ELSE {})
                 \cup (IF in.sentiment = "negative"
                       THEN {<<"negative_customer_sentiment", "">>} ELSE {})
                 \cup (IF in.high_engagement THEN {<<"high_visibility_mention", "">>} ELSE {})
                 \cup content_risks.risk_factors
                 \cup (IF in.crisis_detected
                       THEN {<<"crisis_situation_detected", "">>} ELSE {}),
             component_risks |->
                 [quality_risk |-> quality_risk,
                  sentiment_risk |-> sentiment_risk,
                  virality_risk |-> virality_risk,
                  content_risk |-> content_risk,
                  crisis_risk |-> crisis_risk]]

(* _make_contextual_risk_decision *)

\* a decision that also approves a score on the adjusted threshold
MakeContextualRiskDecisionInclusive(in, risk_analysis, cfg, fault) ==
    IF fault = "contextual_decision" THEN Raised
    ELSE
    LET platform_bias == IF in.platform = "twitter" THEN 1000
                         ELSE IF in.platform = "linkedin" THEN -1000 ELSE 0
        time_bias == IF in.business_hours THEN -500 ELSE 1000
        crisis_bias == IF in.crisis_mode THEN -2000 ELSE 0
        auto_approve_bias == platform_bias + time_bias + crisis_bias
        adjusted_threshold == cfg.AUTO_RESPONSE_RISK_THRESHOLD + auto_approve_bias
        risk_score == risk_analysis.overall_risk_score
    IN  IF risk_score <= adjusted_threshold
        THEN [raised |-> FALSE, status |-> "approved_contextual",
              requires_review |-> FALSE, action |-> "publish_immediately"]
        ELSE [raised |-> FALSE, status |-> "pending_approval",
              requires_review |-> TRUE, action |-> "escalate_for_approval"]

\* lines 708-770
MakeContextualRiskDecision(in, risk_analysis, cfg, fault) ==
    IF fault = "contextual_decision" THEN Raised
    ELSE
    LET platform_bias == IF in.platform = "twitter" THEN 1000
                         ELSE IF in.platform = "linkedin" THEN -1000 ELSE 0
        time_bias == IF in.business_hours THEN -500 ELSE 1000
        crisis_bias == IF in.crisis_mode THEN -2000 ELSE 0
        auto_approve_bias == platform_bias + time_bias + crisis_bias
        adjusted_threshold == cfg.AUTO_RESPONSE_RISK_THRESHOLD + auto_approve_bias
        risk_score == risk_analysis.overall_risk_score
    IN  IF risk_score < adjusted_threshold
        THEN [raised |-> FALSE, status |-> "approved_contextual",
              requires_review |-> FALSE, action |-> "publish_immediately"]
        ELSE [raised |-> FALSE, status |-> "pending_approval",
              requires_review |-> TRUE, action |-> "escalate_for_approval"]

(* _suggest_appropriate_reviewers.  FactorHas(f, w) is the test            *)
(* `w in factor` on the tag the tuple f stands for.                        *)

FactorHas(f, w) ==
    \/ f[1] = "high_risk_topic" /\ f[2] = w
    \/ f[1] = "crisis_situation_detected" /\ w = "crisis"
    \/ f[1] = "high_visibility_mention" /\ w = "high_visibility"

SuggestAppropriateReviewers(risk_factors, fault) ==
    IF fault = "reviewer_suggestion" THEN Raised
    ELSE
    LET AnyHas(w) == \E f \in risk_factors : FactorHas(f, w)
        reviewers ==
            (IF AnyHas("crisis") THEN {"crisis_manager", "brand_director", "ceo"} ELSE {})
            \cup (IF AnyHas("legal") THEN {"legal_team", "compliance_officer"} ELSE {})
            \cup (IF AnyHas("medical") \/ AnyHas("health")
                  THEN {"medical_affairs", "regulatory_team"} ELSE {})
            \cup (IF AnyHas("financial") THEN {"investor_relations", "cfo"} ELSE {})
            \cup (IF AnyHas("high_visibility")
                  THEN {"social_media_manager", "pr_manager"} ELSE {})
    IN  [raised |-> FALSE,
         reviewers |-> IF reviewers = {}
                       THEN {"social_media_manager", "customer_service_manager"}
                       ELSE reviewers]

(* _trigger_human_review_alert: builds and logs the alert, returns nothing *)

TriggerHumanReviewAlert(fault) ==
    IF fault = "review_alert" THEN Raised ELSE [raised |-> FALSE]

----------------------------------------------------------------------------
(* _make_autonomous_approval_decision *)

Decision(status, review, action, confidence, autonomous, reviewers, risk, error) ==
    [approval_status |-> status,
     requires_human_review |-> review,
     recommended_action |-> action,
     confidence |-> confidence,
     autonomous_decision |-> autonomous,
     suggested_reviewers |-> reviewers,
     has_risk_analysis |-> risk >= 0,
     overall_risk_score |-> risk,
     error |-> error]

\* a handler that fails open
FailOpenDecision ==
    Decision("approved_auto", FALSE, "publish_immediately", "low",
             FALSE, {}, -1, TRUE)

\* the dict the except branch returns (lines 577-585)
FailSafeDecision ==
    Decision("pending_approval", TRUE, "escalate_for_approval", "low",
             FALSE, {}, -1, TRUE)

\* a low band that takes the threshold itself
IsLowRiskInclusive(risk_score, cfg) == risk_score <= cfg.AUTO_RESPONSE_RISK_THRESHOLD

\* the low band (lines 512-523)
IsLowRisk(risk_score, cfg) == risk_score < cfg.AUTO_RESPONSE_RISK_THRESHOLD

\* the high band (line 525); it is tested only when the low band is not taken
IsHighRisk(risk_score, cfg) == risk_score > cfg.HUMAN_REVIEW_RISK_THRESHOLD

\* the body of the try block (lines 503-572)
DecisionBody(in, cfg, fault) ==
    LET risk_analysis == CalculateComprehensiveRiskScore(in, fault)
    IN  IF risk_analysis.raised THEN Raised
        ELSE
        LET risk_score == risk_analysis.overall_risk_score
        IN  IF IsLowRisk(risk_score, cfg)
            THEN [raised |-> FALSE,
                  decision |-> Decision("approved_auto", FALSE, "publish_immediately",
                                        "high", TRUE, {}, risk_score, FALSE)]
            ELSE IF IsHighRisk(risk_score, cfg)
            THEN LET suggested == SuggestAppropriateReviewers(risk_analysis.risk_factors, fault)
                 IN  IF suggested.raised THEN Raised
                     ELSE IF TriggerHumanReviewAlert(fault).raised THEN Raised
                     ELSE [raised |-> FALSE,
                           decision |-> Decision("pending_approval", TRUE,
                                                 "escalate_for_approval", "high", TRUE,
                                                 suggested.reviewers, risk_score, FALSE)]
            ELSE LET contextual_decision ==
                         MakeContextualRiskDecision(in, risk_analysis, cfg, fault)
                 IN  IF contextual_decision.raised THEN Raised
                     ELSE [raised |-> FALSE,
                           decision |-> Decision(contextual_decision.status,
                                                 contextual_decision.requires_review,
                                                 contextual_decision.action, "medium",
                                                 TRUE, {}, risk_score, FALSE)]

\* try: body / except Exception: return the fail-safe dict (lines 502, 574)
MakeAutonomousApprovalDecision(in, cfg, fault) ==
    LET body == DecisionBody(in, cfg, fault)
    IN  IF body.raised
        THEN [raised |-> FALSE, decision |-> FailSafeDecision]
        ELSE [raised |-> FALSE, decision |-> body.decision]

----------------------------------------------------------------------------
(* The policy as a state machine: the service starts with some settings    *)
(* and _make_autonomous_approval_decision is called with some inputs.  The *)
(* function keeps no state between calls, so one call per behaviour shows  *)
(* every call.                                                             *)

PolicyIdle == [called |-> FALSE]

PolicyCall ==
    /\ ~policy.called
    /\ UNCHANGED settings
    /\ \E in \in PolicyInputs, fault \in Faults :
        policy' = [called |-> TRUE, input |-> in, fault |-> fault,
                   result |-> MakeAutonomousApprovalDecision(in, settings, fault)]

\* Texts that hit many of the lists of _analyze_content_risk: no topic, one,
\* nine, ten and all of high_risk_topics; no commitment phrase or all five.
NineTopics ==
    {"lawsuit", "legal", "court", "sue", "attorney", "lawyer",
     "discrimination", "harassment", "bias"}

TopicChoices ==
    {{}, {"legal"}, NineTopics, NineTopics \cup {"racist"}, high_risk_topics}

commitment_words == 5

WideInputs ==
    [quality : QualityAssessments,
     sentiment : Sentiments,
     high_engagement : BOOLEAN,
     topics : TopicChoices,
     commitments : {0, commitment_words},
     length : Lengths,
     crisis_detected : BOOLEAN,
     platform : Platforms,
     business_hours : BOOLEAN,
     crisis_mode : BOOLEAN]

\* a call of _make_autonomous_approval_decision with such texts
WidePolicyCall ==
    /\ ~policy.called
    /\ UNCHANGED settings
    /\ \E in \in WideInputs, fault \in Faults :
        policy' = [called |-> TRUE, input |-> in, fault |-> fault,
                   result |-> MakeAutonomousApprovalDecision(in, settings, fault)]

----------------------------------------------------------------------------
(* Workflow graph: inputs *)

\* LangGraph ends a run that has not reached END after recursion_limit
\* node executions by raising GraphRecursionError out of ainvoke (ainvoke is
\* called without a config, line 214, so the library default applies).  The
\* model runs with a smaller limit.
RecursionLimit == 12

AgentIds == {"data_collection_agent", "sentiment_analysis_agent", "response_generation_agent"}

\* A collected mention, as far as the orchestrator reads it: asks is
\* ("?" in content or "help" in content or "support" in content).
Mention(id, asks, sentiment) == [id |-> id, asks |-> asks, sentiment |-> sentiment]

MentionBatches ==
    {<< >>,
     <<Mention(1, FALSE, "neutral")>>,
     <<Mention(1, TRUE, "neutral")>>,
     <<Mention(1, FALSE, "negative"), Mention(2, TRUE, "positive")>>,
     <<Mention(1, FALSE, "negative"), Mention(2, FALSE, "neutral"), Mention(3, FALSE, "neutral")>>}

\* state["collected_data"]: a dict with or without "mentions", or not a dict
\* at all (the agent returned "data": None).
CollectedData(is_dict, mentions) == [is_dict |-> is_dict, mentions |-> mentions]

EmptyDict == CollectedData(TRUE, << >>)

\* What agent.think_and_act does in _data_collection_node.
CollectResults ==
    {[raises |-> TRUE, success |-> FALSE, data |-> EmptyDict]}
    \cup {[raises |-> FALSE, success |-> ok, data |-> CollectedData(TRUE, b)] :
              ok \in BOOLEAN, b \in MentionBatches}
    \cup {[raises |-> FALSE, success |-> TRUE, data |-> CollectedData(FALSE, << >>)]}

\* One result of the sentiment agent, as far as _summarize_sentiment_analysis
\* reads it.
AnalysisKinds ==
    {[sentiment |-> "neutral", crisis_keyword |-> FALSE, likes_over_50 |-> FALSE],
     [sentiment |-> "negative", crisis_keyword |-> TRUE, likes_over_50 |-> TRUE]}

\* One result of agent.generate_intelligent_response, as far as the
\* orchestrator reads it.  quality is quality_assessment["quality_score"] in
\* tenths; status "none" is a result without the key "approval_decision"
\* (the fallback response of the agent, quality 0.6).
Response(id, quality, status, review) ==
    [mention_id |-> id, quality |-> quality,
     approval_status |-> status, requires_human_review |-> review]

ResponseKinds ==
    {[quality |-> 2, approval_status |-> "pending_approval", requires_human_review |-> TRUE],
     [quality |-> 8, approval_status |-> "pending_approval", requires_human_review |-> TRUE],
     [quality |-> 8, approval_status |-> "approved_auto", requires_human_review |-> FALSE],
     [quality |-> 8, approval_status |-> "approved_contextual", requires_human_review |-> FALSE],
     [quality |-> 6, approval_status |-> "none", requires_human_review |-> FALSE]}

----------------------------------------------------------------------------
(* Workflow graph: state *)

Nodes ==
    {"initialize_workflow", "collect_data", "analyze_sentiment", "assess_crisis",
     "generate_responses", "quality_assessment", "approval_decision",
     "human_review", "auto_publish", "crisis_escalation", "finalize_workflow"}

Routers ==
    {"route_after_data_collection", "route_after_crisis_assessment",
     "route_approval_decision"}

\* AgentWorkflowState as execute_autonomous_goal builds it (lines 190-208).
\* A dict key that is absent is a has_... flag that is FALSE.
InitialState(crisis_goal) ==
    [goal_mentions_crisis |-> crisis_goal,
     context |-> [crisis_mode |-> FALSE, data_collection_retries |-> 0],
     current_step |-> "initialize_workflow",
     completed_steps |-> << >>,
     failed_steps |-> << >>,
     has_agent_result |-> FALSE,
     collected_data |-> EmptyDict,
     sentiment_analysis |-> [has_summary |-> FALSE, total |-> 0, negative |-> 0,
                             crisis_keywords |-> 0, high_engagement_negative |-> 0],
     generated_responses |-> << >>,
     approval_decisions |-> << >>,
     quality_scores |-> [has_average |-> FALSE, total |-> 0, count |-> 0,
                         by_id |-> {}],
     risk_assessments |-> [has_score |-> FALSE, crisis_num |-> 0, crisis_den |-> 1,
                           crisis_level |-> "none"],
     performance_metrics |-> [has_approval |-> FALSE, auto_approved |-> 0,
                              requires_review |-> 0, decisions |-> 0,
                              has_auto_published |-> FALSE, auto_published |-> 0],
     final_results |-> [has_auto_published |-> FALSE, auto_published_responses |-> << >>,
                        has_pending |-> FALSE, pending_human_review |-> << >>,
                        has_escalation |-> FALSE, escalation_actions |-> {}],
     recommendations |-> {},
     next_actions |-> {}]

NoState == [goal_mentions_crisis |-> FALSE]

NoLast == [node |-> "none", outcome |-> "none"]

NoReport == [kind |-> "none", keys |-> {}, success |-> FALSE]

Contains(seq, x) == \E i \in 1..Len(seq) : seq[i] = x

----------------------------------------------------------------------------
(* Reports of execute_autonomous_goal *)

\* _fallback_execution (lines 652-675)
FallbackExecution ==
    [kind |-> "fallback",
     keys |-> {"success", "goal", "execution_method", "steps_completed", "timestamp"},
     success |-> TRUE]

\* the except branch of execute_autonomous_goal (lines 219-225)
GraphFailureReport ==
    [kind |-> "error",
     keys |-> {"success", "error", "fallback_execution"},
     success |-> FALSE]

\* a report that calls a run a success when its last step completed
ProcessWorkflowResultsByLastStep(final_state) ==
    [kind |-> "workflow",
     keys |-> {"success", "workflow_id", "goal", "completed_steps", "failed_steps",
               "agent_results", "performance_metrics", "quality_scores",
               "risk_assessments", "final_results", "recommendations",
               "next_actions", "langgraph_execution", "timestamp"},
     success |-> /\ Len(final_state.completed_steps) > 0
                 /\ final_state.completed_steps[Len(final_state.completed_steps)]
                        = final_state.current_step,
     completed_steps |-> final_state.completed_steps,
     failed_steps |-> final_state.failed_steps,
     final_results |-> final_state.final_results,
     recommendations |-> final_state.recommendations,
     next_actions |-> final_state.next_actions]
\* _process_workflow_results (lines 633-650)
ProcessWorkflowResults(final_state) ==
    [kind |-> "workflow",
     keys |-> {"success", "workflow_id", "goal", "completed_steps", "failed_steps",
               "agent_results", "performance_metrics", "quality_scores",
               "risk_assessments", "final_results", "recommendations",
               "next_actions", "langgraph_execution", "timestamp"},
     success |-> Len(final_state.failed_steps) = 0,
     completed_steps |-> final_state.completed_steps,
     failed_steps |-> final_state.failed_steps,
     final_results |-> final_state.final_results,
     recommendations |-> final_state.recommendations,
     next_actions |-> final_state.next_actions]

----------------------------------------------------------------------------
(* Helper methods of the orchestrator *)

\* _identify_mentions_needing_response (lines 584-600)
NeedsResponse(mention) == mention.asks \/ mention.sentiment = "negative"

IdentifyMentionsNeedingResponse(st) ==
    SelectSeq(st.collected_data.mentions, NeedsResponse)

\* _summarize_sentiment_analysis (lines 602-631); the ratios are kept as the
\* counts they are computed from
SummarizeSentimentAnalysis(analysis_results) ==
    LET IsNegative(r) == r.sentiment = "negative"
        HasKeyword(r) == r.crisis_keyword
        IsLoud(r) == r.sentiment = "negative" /\ r.likes_over_50
    IN  IF Len(analysis_results) = 0
        THEN [has_summary |-> TRUE, total |-> 0, negative |-> 0,
              crisis_keywords |-> 0, high_engagement_negative |-> 0]
        ELSE [has_summary |-> TRUE,
              total |-> Len(analysis_results),
              negative |-> Len(SelectSeq(analysis_results, IsNegative)),
              crisis_keywords |-> Len(SelectSeq(analysis_results, HasKeyword)),
              high_engagement_negative |-> Len(SelectSeq(analysis_results, IsLoud))]

----------------------------------------------------------------------------
(* Running the graph *)

\* one node execution: the node leaves the state st and the graph goes on
\* to next (a node, a routing function or "END")
Ran(node, outcome, st, next) ==
    /\ state' = st
    /\ pc' = next
    /\ supersteps' = supersteps + 1
    /\ executions' = [executions EXCEPT ![node] = @ + 1]
    /\ last' = [node |-> node, outcome |-> outcome]
    /\ UNCHANGED <<settings, policy, agents, use_fallback, route, report, serviceVars>>

\* a routing function returned decision, and the graph goes on to next
Routed(decision, st, next) ==
    /\ state' = st
    /\ pc' = next
    /\ route' = decision
    /\ UNCHANGED <<settings, policy, agents, use_fallback, supersteps, executions,
                   last, report, serviceVars>>

\* an exception left ainvoke: the except branch of execute_autonomous_goal
GraphRaised(where) ==
    /\ report' = GraphFailureReport
    /\ pc' = "done"
    /\ route' = where
    /\ UNCHANGED <<settings, policy, agents, use_fallback, state, supersteps,
                   executions, last, serviceVars>>

CanRun(node) == pc = node /\ supersteps < RecursionLimit

\* execute_autonomous_goal up to the call of ainvoke (lines 186-214)
ExecuteAutonomousGoal ==
    /\ pc = "idle"
    /\ \E crisis_goal \in BOOLEAN :
        IF use_fallback
        THEN /\ report' = FallbackExecution
             /\ pc' = "done"
             /\ UNCHANGED state
        ELSE /\ state' = InitialState(crisis_goal)
             /\ pc' = "initialize_workflow"
             /\ UNCHANGED report
    /\ UNCHANGED <<settings, policy, agents, use_fallback, supersteps, executions,
                   route, last, serviceVars>>

\* ainvoke gives up at the recursion limit
GraphRecursionError ==
    /\ pc \in Nodes
    /\ supersteps >= RecursionLimit
    /\ GraphRaised("recursion_limit")

\* ainvoke returned: _process_workflow_results (line 217)
ReturnReport ==
    /\ pc = "END"
    /\ report' = ProcessWorkflowResults(state)
    /\ pc' = "done"
    /\ UNCHANGED <<settings, policy, agents, use_fallback, state, supersteps,
                   executions, route, last, serviceVars>>

\* _initialize_workflow_node (lines 229-244)
InitializeWorkflowNode ==
    /\ CanRun("initialize_workflow")
    /\ Ran("initialize_workflow", "completed",
           [state EXCEPT !.current_step = "initialize_workflow",
                         !.completed_steps = Append(@, "initialize_workflow"),
                         !.context.crisis_mode = IF state.goal_mentions_crisis THEN TRUE ELSE @],
           "collect_data")

\* _data_collection_node (lines 246-279)
DataCollectionNode ==
    /\ CanRun("collect_data")
    /\ LET st == [state EXCEPT !.current_step = "collect_data"]
       IN  IF "data_collection_agent" \in agents
           THEN \E result \in CollectResults :
                   IF result.raises
                   THEN Ran("collect_data", "failed",
                            [st EXCEPT !.failed_steps = Append(@, "collect_data")],
                            "route_after_data_collection")
                   ELSE LET got == [st EXCEPT !.has_agent_result = TRUE,
                                              !.collected_data = result.data]
                        IN  IF result.success
                            THEN Ran("collect_data", "completed",
                                     [got EXCEPT !.completed_steps = Append(@, "collect_data")],
                                     "route_after_data_collection")
                            ELSE Ran("collect_data", "failed",
                                     [got EXCEPT !.failed_steps = Append(@, "collect_data")],
                                     "route_after_data_collection")
           ELSE Ran("collect_data", "silent", st, "route_after_data_collection")

\* a cap that is off by one
MayRetryInclusive(retry_count) == retry_count <= 2

\* the retry cap of _route_after_data_collection (line 540)
MayRetry(retry_count) == retry_count < 2

\* _route_after_data_collection (lines 536-550) under the conditional edges
\* of lines 124-132
RouteAfterDataCollection ==
    /\ pc = "route_after_data_collection"
    /\ IF Contains(state.failed_steps, "collect_data")
       THEN LET retry_count == state.context.data_collection_retries
            IN  IF MayRetry(retry_count)
                THEN Routed("retry_collection",
                            [state EXCEPT !.context.data_collection_retries = retry_count + 1],
                            "collect_data")
                ELSE Routed("abort", state, "END")
       ELSE IF ~state.collected_data.is_dict
            THEN GraphRaised("route_after_data_collection")
            ELSE IF Len(state.collected_data.mentions) > 0
                 THEN Routed("analyze_sentiment", state, "analyze_sentiment")
                 ELSE Routed("abort", state, "END")

\* _sentiment_analysis_node (lines 281-314)
SentimentAnalysisNode ==
    /\ CanRun("analyze_sentiment")
    /\ LET st == [state EXCEPT !.current_step = "analyze_sentiment"]
           mentions == IF st.collected_data.is_dict
                       THEN SubSeq(st.collected_data.mentions, 1,
                                   Min(10, Len(st.collected_data.mentions)))
                       ELSE << >>
       IN  IF "sentiment_analysis_agent" \in agents
           THEN \/ Ran("analyze_sentiment", "failed",
                       [st EXCEPT !.failed_steps = Append(@, "analyze_sentiment")],
                       "assess_crisis")
                \/ /\ st.collected_data.is_dict
                   /\ \E analysis_results \in [1..Len(mentions) -> AnalysisKinds] :
                        Ran("analyze_sentiment", "completed",
                            [st EXCEPT !.sentiment_analysis =
                                           SummarizeSentimentAnalysis(analysis_results),
                                       !.completed_steps = Append(@, "analyze_sentiment")],
                            "assess_crisis")
           ELSE Ran("analyze_sentiment", "silent", st, "assess_crisis")

\* crisis_score of _crisis_assessment_node (lines 323-330) as the fraction
\* num/den:  0.4*negative/total + 0.4*min(kw/5, 1) + 0.2*min(loud/3, 1)
\* over the common denominator 1500*total
CrisisScoreWithoutEngagement(summary) ==
    IF ~summary.has_summary \/ summary.total = 0
    THEN [num |-> 0, den |-> 1]
    ELSE [num |-> 600 * summary.negative
                  + summary.total * 120 * Min(summary.crisis_keywords, 5),
          den |-> 1500 * summary.total]
CrisisScore(summary) ==
    IF ~summary.has_summary \/ summary.total = 0
    THEN [num |-> 0, den |-> 1]
    ELSE [num |-> 600 * summary.negative
                  + summary.total * (120 * Min(summary.crisis_keywords, 5)
                                     + 100 * Min(summary.high_engagement_negative, 3)),
          den |-> 1500 * summary.total]

\* crisis_score > tenths/10
ScoreAbove(risk, tenths) == 10 * risk.crisis_num > tenths * risk.crisis_den

\* _crisis_assessment_node (lines 316-345)
CrisisAssessmentNode ==
    /\ CanRun("assess_crisis")
    /\ LET score == CrisisScore(state.sentiment_analysis)
           risk == [has_score |-> TRUE, crisis_num |-> score.num,
                    crisis_den |-> score.den, crisis_level |-> "none"]
           level == IF ScoreAbove(risk, 8) THEN "severe"
                    ELSE IF ScoreAbove(risk, 6) THEN "moderate" ELSE "low"
       IN  Ran("assess_crisis", "completed",
               [state EXCEPT !.current_step = "assess_crisis",
                             !.risk_assessments = [risk EXCEPT !.crisis_level = level],
                             !.completed_steps = Append(@, "assess_crisis")],
               "route_after_crisis_assessment")

\* _route_after_crisis_assessment (lines 552-563) under the conditional edges
\* of lines 138-146
RouteAfterCrisisAssessment ==
    /\ pc = "route_after_crisis_assessment"
    /\ IF ScoreAbove(state.risk_assessments, 8)
       THEN Routed("escalate_crisis", state, "crisis_escalation")
       ELSE IF ~state.collected_data.is_dict
            THEN GraphRaised("route_after_crisis_assessment")
            ELSE IF Len(IdentifyMentionsNeedingResponse(state)) > 0
                 THEN Routed("generate_responses", state, "generate_responses")
                 ELSE Routed("complete", state, "finalize_workflow")

\* _response_generation_node (lines 347-378): the agent answers the first
\* answered mentions and, when raises, raises on the next one
ResponseGenerationNode ==
    /\ CanRun("generate_responses")
    /\ LET st == [state EXCEPT !.current_step = "generate_responses"]
       IN  IF "response_generation_agent" \in agents
           THEN IF ~st.collected_data.is_dict
                THEN Ran("generate_responses", "failed",
                         [st EXCEPT !.failed_steps = Append(@, "generate_responses")],
                         "quality_assessment")
                ELSE
                LET needing == IdentifyMentionsNeedingResponse(st)
                IN  \E raises \in BOOLEAN :
                    \E answered \in (IF raises THEN 0..Max(Len(needing) - 1, 0)
                                     ELSE {Len(needing)}) :
                    \E kinds \in [1..answered -> ResponseKinds] :
                      LET results ==
                              [i \in 1..answered |->
                                  Response(IF kinds[i].approval_status = "none"
                                           THEN 0 ELSE needing[i].id,
                                           kinds[i].quality,
                                           kinds[i].approval_status,
                                           kinds[i].requires_human_review)]
                          grown == [st EXCEPT !.generated_responses = @ \o results]
                      IN  IF raises
                          THEN Ran("generate_responses", "failed",
                                   [grown EXCEPT !.failed_steps =
                                                     Append(@, "generate_responses")],
                                   "quality_assessment")
                          ELSE Ran("generate_responses", "completed",
                                   [grown EXCEPT !.completed_steps =
                                                     Append(@, "generate_responses")],
                                   "quality_assessment")
           ELSE Ran("generate_responses", "silent", st, "quality_assessment")

\* sum of a function 1..n -> Int
RECURSIVE SumTo(_, _)
SumTo(f, n) == IF n = 0 THEN 0 ELSE f[n] + SumTo(f, n - 1)

\* _quality_assessment_node (lines 380-406): the average is the fraction
\* total/count of tenths, 0.5 when there is no response; by_id is the dict
\* entry of each mention_id, which the last response of that id wrote
QualityAssessmentNode ==
    /\ CanRun("quality_assessment")
    /\ LET responses == state.generated_responses
           n == Len(responses)
           total_quality == SumTo([i \in 1..n |-> responses[i].quality], n)
           by_id == {<<responses[i].mention_id, responses[i].quality>> :
                        i \in {k \in 1..n :
                                 \A j \in (k + 1)..n :
                                    responses[j].mention_id # responses[k].mention_id}}
       IN  Ran("quality_assessment", "completed",
               [state EXCEPT !.current_step = "quality_assessment",
                             !.quality_scores =
                                 IF n > 0
                                 THEN [has_average |-> TRUE, total |-> total_quality,
                                       count |-> n, by_id |-> by_id]
                                 ELSE [has_average |-> TRUE, total |-> 5,
                                       count |-> 1, by_id |-> by_id],
                             !.completed_steps = Append(@, "quality_assessment")],
               "approval_decision")

\* response_result.get("approval_decision", {})
ApprovalDecisionOf(response) ==
    [approval_status |-> response.approval_status,
     requires_human_review |-> response.requires_human_review]

IsAutoApproved(d) == d.approval_status = "approved_auto"

RequiresHumanReview(d) == d.requires_human_review

\* _approval_decision_node (lines 408-434)
ApprovalDecisionNode ==
    /\ CanRun("approval_decision")
    /\ LET responses == state.generated_responses
           decisions == state.approval_decisions
                        \o [i \in 1..Len(responses) |-> ApprovalDecisionOf(responses[i])]
       IN  Ran("approval_decision", "completed",
               [state EXCEPT !.current_step = "approval_decision",
                             !.approval_decisions = decisions,
                             !.performance_metrics =
                                 [@ EXCEPT !.has_approval = TRUE,
                                           !.auto_approved = Len(SelectSeq(decisions, IsAutoApproved)),
                                           !.requires_review = Len(SelectSeq(decisions, RequiresHumanReview)),
                                           !.decisions = Len(decisions)],
                             !.completed_steps = Append(@, "approval_decision")],
               "route_approval_decision")

\* avg_quality < 0.5 in _route_approval_decision (lines 567-570)
QualityAtMostHalf(quality_scores) ==
    IF quality_scores.has_average
    THEN quality_scores.total <= 5 * quality_scores.count
    ELSE TRUE
QualityBelowHalf(quality_scores) ==
    IF quality_scores.has_average
    THEN quality_scores.total < 5 * quality_scores.count
    ELSE TRUE

\* _route_approval_decision (lines 565-580) under the conditional edges of
\* lines 155-163
RouteApprovalDecision ==
    /\ pc = "route_approval_decision"
    /\ IF QualityBelowHalf(state.quality_scores)
       THEN Routed("regenerate", state, "generate_responses")
       ELSE IF state.performance_metrics.auto_approved > 0
            THEN Routed("auto_approve", state, "auto_publish")
            ELSE IF state.performance_metrics.requires_review > 0
                 THEN Routed("human_review", state, "human_review")
                 ELSE Routed("auto_approve", state, "auto_publish")

IsAutoApprovedResponse(r) == IsAutoApproved(ApprovalDecisionOf(r))

NeedsHumanReview(r) == RequiresHumanReview(ApprovalDecisionOf(r))

\* _auto_publish_node (lines 436-450)
AutoPublishNode ==
    /\ CanRun("auto_publish")
    /\ LET auto_approved_responses ==
               SelectSeq(state.generated_responses, IsAutoApprovedResponse)
       IN  Ran("auto_publish", "silent",
               [state EXCEPT !.performance_metrics.has_auto_published = TRUE,
                             !.performance_metrics.auto_published =
                                 Len(auto_approved_responses),
                             !.final_results.has_auto_published = TRUE,
                             !.final_results.auto_published_responses =
                                 auto_approved_responses],
               "finalize_workflow")

\* _human_review_node (lines 452-465)
HumanReviewNode ==
    /\ CanRun("human_review")
    /\ LET review_required_responses ==
               SelectSeq(state.generated_responses, NeedsHumanReview)
       IN  Ran("human_review", "silent",
               [state EXCEPT !.final_results.has_pending = TRUE,
                             !.final_results.pending_human_review =
                                 review_required_responses],
               "finalize_workflow")

\* _crisis_escalation_node (lines 467-496)
CrisisEscalationNode ==
    /\ CanRun("crisis_escalation")
    /\ LET escalation_actions ==
               IF ScoreAbove(state.risk_assessments, 8)
               THEN {"notify_ceo_immediately", "activate_crisis_team",
                     "prepare_press_statement", "monitor_social_sentiment_hourly"}
               ELSE IF ScoreAbove(state.risk_assessments, 6)
               THEN {"notify_pr_team", "increase_monitoring_frequency",
                     "prepare_response_templates"}
               ELSE {}
       IN  Ran("crisis_escalation", "silent",
               [state EXCEPT !.final_results.has_escalation = TRUE,
                             !.final_results.escalation_actions = escalation_actions],
               "finalize_workflow")

\* _finalize_workflow_node (lines 498-532)
FinalizeWorkflowNode ==
    /\ CanRun("finalize_workflow")
    /\ LET pm == state.performance_metrics
           qs == state.quality_scores
           ra == state.risk_assessments
           recommendations ==
               (IF ~pm.has_approval \/ pm.decisions = 0
                   \/ 10 * pm.auto_approved < 7 * pm.decisions
                THEN {"adjust_auto_approval_thresholds"} ELSE {})
               \cup (IF ~qs.has_average \/ 10 * qs.total < 80 * qs.count
                     THEN {"update_knowledge_base"} ELSE {})
               \cup (IF ra.has_score /\ ScoreAbove(ra, 6)
                     THEN {"maintain_heightened_monitoring"} ELSE {})
           next_actions ==
               (IF state.final_results.has_pending
                   /\ Len(state.final_results.pending_human_review) > 0
                THEN {"review_pending_responses"} ELSE {})
               \cup (IF ra.has_score /\ ScoreAbove(ra, 3)
                     THEN {"monitor_next_24_hours"} ELSE {})
               \cup {"next_autonomous_cycle"}
       IN  Ran("finalize_workflow", "completed",
               [state EXCEPT !.current_step = "finalize_workflow",
                             !.recommendations = recommendations,
                             !.next_actions = next_actions,
                             !.completed_steps = Append(@, "finalize_workflow")],
               "END")

\* the agent whose coroutine a node awaits (lines 262, 296, 361)
AgentOf ==
    [collect_data |-> "data_collection_agent",
     analyze_sentiment |-> "sentiment_analysis_agent",
     generate_responses |-> "response_generation_agent"]

\* A node awaits think_and_act or generate_intelligent_response, which
\* awaits self.llm.ainvoke (base_agent.py line 240), and the call does not
\* return.  No await on the way is wrapped in asyncio.wait_for and ainvoke
\* of the graph is called without a timeout, so nothing resumes the node.
CollaboratorNeverReturns ==
    /\ \E node \in DOMAIN AgentOf :
        /\ CanRun(node)
        /\ AgentOf[node] \in agents
        /\ state' = [state EXCEPT !.current_step = node]
        /\ last' = [node |-> node, outcome |-> "awaiting"]
    /\ pc' = "awaiting"
    /\ UNCHANGED <<settings, policy, agents, use_fallback, supersteps, executions,
                   route, report, serviceVars>>

----------------------------------------------------------------------------
(* Alert management agent: inputs                                          *)
(*                                                                         *)
(* Strings that the agent joins with "_" (brand ids, platforms, alert      *)
(* types) are sequences of the pieces between the underscores, so that     *)
(* joining is concatenation.  Confidences and ratios are hundredths.       *)

\* settings.NEGATIVE_SENTIMENT_THRESHOLD, in hundredths
NEGATIVE_SENTIMENT_THRESHOLD == 70

CRISIS_MENTION_THRESHOLD == 10

VOLUME_SPIKE_MULTIPLIER == 3

\* alert_rules["sentiment_deterioration"]["threshold_change"], in hundredths
THRESHOLD_CHANGE == 30

\* 7 * 24 * 60 * 60 seconds, in hours
VolumeWindow == 7 * 24

\* 24 * 60 * 60 seconds, in hours
SentimentWindow == 24

\* len(window) >= 10 in _check_volume_spike
MinVolumeSamples == 10

\* len(window) >= 5 in _check_sentiment_deterioration
MinSentimentSamples == 5

\* calls of process_task in a run of the alert life cycle
MaxAlertTasks == 2

\* calls of process_task in a run of the rules
MaxRuleTasks == 2

\* calls of process_task in a run of the monitoring of one brand
MaxWindowTasks == 11

\* the clock of the monitoring run stops after nine days
MaxClock == 9 * 24

\* alerts in one direct call of _process_alerts
MaxAlerts == 3

Severities == {"low", "medium", "high", "critical"}

\* severity_order (line 327) and the key of max() in _check_crisis_keywords
SeverityOrder(severity) ==
    CASE severity = "critical" -> 4
      [] severity = "high" -> 3
      [] severity = "medium" -> 2
      [] OTHER -> 1

\* An analysed item, as far as the rules read it.  sentiment_is_dict is
\* FALSE for an item whose "sentiment" is the label itself (a string), the
\* form the response agent and the workflow graph use.
Item(sentiment_is_dict, overall, confidence, has_indicators, risk_level) ==
    [sentiment_is_dict |-> sentiment_is_dict, overall |-> overall,
     confidence |-> confidence, has_indicators |-> has_indicators,
     risk_level |-> risk_level]

CalmItem == Item(TRUE, "neutral", 50, FALSE, "low")

AngryItem == Item(TRUE, "negative", 90, FALSE, "low")

CrisisItem(risk_level) == Item(TRUE, "negative", 75, TRUE, risk_level)

\* n copies of item
Repeat(item, n) == [i \in 1..n |-> item]

\* batches for the rules: nothing, a quiet mention, one crisis mention, a
\* spike of negative mentions with a critical one among them, and three
\* batches that hold an item a rule cannot read
RuleBatches ==
    {<<>>,
     <<CalmItem>>,
     <<CrisisItem("medium")>>,
     Repeat(CrisisItem("low"), CRISIS_MENTION_THRESHOLD - 1) \o <<CrisisItem("critical")>>,
     <<CrisisItem("high"), Item(FALSE, "negative", 0, FALSE, "low")>>,
     <<CrisisItem("high"), Item(TRUE, "neutral", 50, TRUE, "severe")>>,
     <<CrisisItem("high"), Item(TRUE, "mixed", 50, FALSE, "low")>>}

\* batches of the alert life cycle: each raises one alert
AlertBatches == {<<CrisisItem("medium")>>, <<CrisisItem("critical")>>}

\* batches of the monitoring of one brand: a quiet hour and a loud one
WindowBatches == {<<CalmItem>>, Repeat(AngryItem, 4)}

Brands == {<<"acme">>, <<"zen">>}

AlertPlatforms == {<<"twitter">>, <<"reddit">>}

\* the (brand, platform) pairs that are monitored
Targets == {<<b, p>> \in Brands \X AlertPlatforms : b = <<"acme">> \/ p = <<"twitter">>}

\* who acknowledges and resolves
Operators == {"ops"}

----------------------------------------------------------------------------
(* Alert management agent: the four rules *)

NoId == [prefix |-> <<>>, second |-> 0]

\* the dict a rule appends; brand_id and alert_id are set by _process_alerts,
\* the acknowledgement and resolution fields by acknowledge_alert and
\* resolve_alert
Alert(type, severity, platform, count, timestamp, immediate) ==
    [type |-> type, severity |-> severity, platform |-> platform,
     count |-> count, timestamp |-> timestamp,
     requires_immediate_attention |-> immediate,
     brand_id |-> <<>>, alert_id |-> NoId,
     acknowledged |-> FALSE, acknowledged_by |-> "", acknowledged_at |-> -1,
     resolved |-> FALSE, resolved_by |-> "", resolved_at |-> -1]

\* item.get("sentiment", {}).get(...) raises AttributeError on a string
SentimentReadable(data) == \A i \in 1..Len(data) : data[i].sentiment_is_dict

\* a filter that also takes a confidence on the threshold
IsStronglyNegativeInclusive(item) ==
    item.overall = "negative" /\ item.confidence >= NEGATIVE_SENTIMENT_THRESHOLD

\* the filter of lines 155-159
IsStronglyNegative(item) ==
    item.overall = "negative" /\ item.confidence > NEGATIVE_SENTIMENT_THRESHOLD

\* _check_negative_sentiment_spike (lines 151-177)
CheckNegativeSentimentSpike(data, platform, t) ==
    IF ~SentimentReadable(data) THEN [raised |-> TRUE, alerts |-> <<>>]
    ELSE
    LET negative_mentions == SelectSeq(data, IsStronglyNegative)
        n == Len(negative_mentions)
        total == SumTo([i \in 1..n |-> negative_mentions[i].confidence], n)
    IN  IF n >= CRISIS_MENTION_THRESHOLD
        THEN [raised |-> FALSE,
              alerts |-> <<Alert(<<"negative", "sentiment", "spike">>,
                                 IF total > 80 * n THEN "critical" ELSE "high",
                                 platform, n, t, FALSE)>>]
        ELSE [raised |-> FALSE, alerts |-> <<>>]

HasIndicators(item) == item.has_indicators

\* _check_crisis_keywords (lines 179-213); the key of max() raises KeyError
\* for a risk level outside the four
CheckCrisisKeywords(data, platform, t) ==
    LET crisis_mentions == SelectSeq(data, HasIndicators)
        risk_groups == {crisis_mentions[i].risk_level : i \in 1..Len(crisis_mentions)}
    IN  IF crisis_mentions = <<>> THEN [raised |-> FALSE, alerts |-> <<>>]
        ELSE IF ~(risk_groups \subseteq Severities) THEN [raised |-> TRUE, alerts |-> <<>>]
        ELSE
        LET max_risk == CHOOSE r \in risk_groups :
                            \A q \in risk_groups : SeverityOrder(q) <= SeverityOrder(r)
        IN  [raised |-> FALSE,
             alerts |-> <<Alert(<<"crisis", "keywords", "detected">>, max_risk,
                                platform, Len(crisis_mentions), t,
                                max_risk \in {"high", "critical"})>>]

\* an entry of a window of historical_data
VolumeEntry(volume, t) == [kind |-> "volume", value |-> volume, timestamp |-> t]

SentimentEntry(negative_ratio, t) ==
    [kind |-> "negative_ratio", value |-> negative_ratio, timestamp |-> t]

\* self.historical_data[key], [] when the key was just created
Window(hist, key) == IF key \in DOMAIN hist THEN hist[key] ELSE <<>>

\* self.historical_data[key] = window
Store(hist, key, window) ==
    [k \in DOMAIN hist \cup {key} |-> IF k = key THEN window ELSE hist[k]]

\* a window that is never trimmed
PruneNothing(window, cutoff_time) == window

\* [entry for entry in window if entry["timestamp"] > cutoff_time]
Prune(window, cutoff_time) ==
    LET Recent(entry) == entry.timestamp > cutoff_time
    IN  SelectSeq(window, Recent)

\* entry[field] raises KeyError for an entry of the other kind
AllOfKind(window, kind) == \A i \in 1..Len(window) : window[i].kind = kind

\* a sum that leaves the newest entry out
WindowSumOfEarlier(window) ==
    SumTo([i \in 1..Len(window) |-> window[i].value], Len(window) - 1)

\* sum(entry[field] for entry in window)
WindowSum(window) == SumTo([i \in 1..Len(window) |-> window[i].value], Len(window))

\* _check_volume_spike (lines 215-258); averaged is the window the mean was
\* computed from, if one was
CheckVolumeSpike(data, platform, brand_id, hist, t) ==
    LET current_volume == Len(data)
        historical_key == brand_id \o platform
        window == Prune(Append(Window(hist, historical_key),
                               VolumeEntry(current_volume, t)),
                        t - VolumeWindow)
        stored == Store(hist, historical_key, window)
        n == Len(window)
        total == WindowSum(window)
    IN  IF n >= MinVolumeSamples
        THEN IF ~AllOfKind(window, "volume")
             THEN [raised |-> TRUE, alerts |-> <<>>, hist |-> stored, averaged |-> window]
             ELSE IF current_volume * n > total * VOLUME_SPIKE_MULTIPLIER
             THEN [raised |-> FALSE,
                   alerts |-> <<Alert(<<"volume", "spike">>,
                                      IF current_volume * n > 5 * total THEN "critical"
                                      ELSE IF current_volume * n > 3 * total THEN "high"
                                      ELSE "medium",
                                      platform, current_volume, t, FALSE)>>,
                   hist |-> stored, averaged |-> window]
             ELSE [raised |-> FALSE, alerts |-> <<>>, hist |-> stored, averaged |-> window]
        ELSE [raised |-> FALSE, alerts |-> <<>>, hist |-> stored, averaged |-> <<>>]

IsNegative(item) == item.overall = "negative"

\* a history that takes the newest entry in
AllWithLast(window) == window

\* self.historical_data[historical_key][:-1] (line 296)
AllButLast(window) == SubSeq(window, 1, Len(window) - 1)

\* _check_sentiment_deterioration (lines 260-314); sentiment_counts[sentiment]
\* raises KeyError for a label outside positive, negative, neutral
CheckSentimentDeterioration(data, platform, brand_id, hist, t) ==
    IF data = <<>> THEN [raised |-> FALSE, alerts |-> <<>>, hist |-> hist, averaged |-> <<>>]
    ELSE IF \/ ~SentimentReadable(data)
            \/ \E i \in 1..Len(data) :
                  data[i].overall \notin {"positive", "negative", "neutral"}
    THEN [raised |-> TRUE, alerts |-> <<>>, hist |-> hist, averaged |-> <<>>]
    ELSE
    LET total_items == Len(data)
        current_negative_ratio == (100 * Len(SelectSeq(data, IsNegative))) \div total_items
        historical_key == brand_id \o platform \o <<"sentiment">>
        window == Prune(Append(Window(hist, historical_key),
                               SentimentEntry(current_negative_ratio, t)),
                        t - SentimentWindow)
        stored == Store(hist, historical_key, window)
        n == Len(window)
    IN  IF n >= MinSentimentSamples
        THEN LET earlier == AllButLast(window)
                 \* deterioration * (n - 1), in hundredths
                 scaled == current_negative_ratio * (n - 1) - WindowSum(earlier)
             IN  IF ~AllOfKind(earlier, "negative_ratio")
                 THEN [raised |-> TRUE, alerts |-> <<>>, hist |-> stored, averaged |-> earlier]
                 ELSE IF scaled > THRESHOLD_CHANGE * (n - 1)
                 THEN [raised |-> FALSE,
                       alerts |-> <<Alert(<<"sentiment", "deterioration">>,
                                          IF scaled > 50 * (n - 1) THEN "high"
                                          ELSE "medium",
                                          platform, 0, t, FALSE)>>,
                       hist |-> stored, averaged |-> earlier]
                 ELSE [raised |-> FALSE, alerts |-> <<>>, hist |-> stored, averaged |-> earlier]
        ELSE [raised |-> FALSE, alerts |-> <<>>, hist |-> stored, averaged |-> <<>>]

----------------------------------------------------------------------------
(* Alert management agent: _process_alerts *)

\* a comparison that reads the timestamp first
SortsBeforeByTime(a, b) ==
    \/ a.timestamp > b.timestamp
    \/ /\ a.timestamp = b.timestamp
       /\ SeverityOrder(a.severity) > SeverityOrder(b.severity)

\* a sorts before b: the key (-severity_order, -timestamp) of a is smaller
SortsBefore(a, b) ==
    \/ SeverityOrder(a.severity) > SeverityOrder(b.severity)
    \/ /\ SeverityOrder(a.severity) = SeverityOrder(b.severity)
       /\ a.timestamp > b.timestamp

\* x goes in front of the first alert that it sorts before
InsertAlert(sorted, x) ==
    LET behind == {i \in 1..Len(sorted) : SortsBefore(x, sorted[i])}
        pos == IF behind = {} THEN Len(sorted) + 1
               ELSE CHOOSE i \in behind : \A j \in behind : i <= j
    IN  SubSeq(sorted, 1, pos - 1) \o <<x>> \o SubSeq(sorted, pos, Len(sorted))

\* alerts.sort(key=...) (line 328): list.sort is stable
RECURSIVE SortAlerts(_)
SortAlerts(alerts) ==
    IF alerts = <<>> THEN <<>>
    ELSE InsertAlert(SortAlerts(SubSeq(alerts, 1, Len(alerts) - 1)),
                     alerts[Len(alerts)])

\* f"{brand_id}_{alert['type']}_{int(time.time())}"
AlertId(brand_id, type, t) == [prefix |-> brand_id \o type, second |-> t]

\* for alert in alerts: self.active_alerts[alert["alert_id"]] = alert
RECURSIVE StoreAlerts(_, _)
StoreAlerts(active, alerts) ==
    IF alerts = <<>> THEN active
    ELSE LET alert == Head(alerts)
         IN  StoreAlerts([id \in DOMAIN active \cup {alert.alert_id} |->
                             IF id = alert.alert_id THEN alert ELSE active[id]],
                         Tail(alerts))

\* _process_alerts (lines 316-334)
ProcessAlerts(alerts, brand_id, active, t) ==
    IF alerts = <<>> THEN [alerts |-> <<>>, active |-> active]
    ELSE LET tagged == [i \in 1..Len(alerts) |->
                           [alerts[i] EXCEPT !.brand_id = brand_id,
                                             !.alert_id = AlertId(brand_id, alerts[i].type, t)]]
             sorted == SortAlerts(tagged)
         IN  [alerts |-> sorted, active |-> StoreAlerts(active, sorted)]

\* what identifies an alert and never changes after _process_alerts
Core(alert) ==
    [alert_id |-> alert.alert_id, brand_id |-> alert.brand_id, type |-> alert.type,
     severity |-> alert.severity, platform |-> alert.platform,
     count |-> alert.count, timestamp |-> alert.timestamp]

----------------------------------------------------------------------------
(* Alert management agent: process_task, acknowledge_alert, resolve_alert *)

NoTask == [op |-> "none"]

NoStats ==
    [total_alerts |-> 0,
     alerts_by_type |-> <<>>,
     alerts_by_severity |-> [s \in Severities |-> 0]]

AlertsIdle ==
    /\ now = 0
    /\ historical_data = <<>>
    /\ active_alerts = <<>>
    /\ alert_history = <<>>
    /\ alert_stats = NoStats
    /\ task = NoTask
    /\ calls = 0
    /\ ever_active = {}
    /\ sorting = [called |-> FALSE]

\* the variables outside the alert management agent
OutsideAlerts == <<policyVars, agents, use_fallback, pc, state, supersteps, route,
                   last, executions, report, messagingVars, monitoringVars,
    orchestrationVars,
    runVars,
    batchVars,
    registryVars,
    lifecycleVars>>

RuleNames ==
    <<"negative_sentiment_spike", "crisis_keywords", "volume_spike",
      "sentiment_deterioration">>

\* self.metrics is the AgentMetrics object of LangChainBaseAgent.__init__
\* (base_agent.py line 139), which has no __getitem__:
\* self.metrics["tasks_processed"] and self.metrics["errors"] raise TypeError
SubscriptMetrics == Raised

\* the statistics after the loop over processed_alerts (lines 96-102)
RECURSIVE CountAlerts(_, _)
CountAlerts(stats, alerts) ==
    IF alerts = <<>> THEN stats
    ELSE LET alert == Head(alerts)
             by_type == stats.alerts_by_type
             counted ==
                 [stats EXCEPT
                    !.alerts_by_type =
                        [ty \in DOMAIN by_type \cup {alert.type} |->
                            IF ty = alert.type
                            THEN (IF ty \in DOMAIN by_type THEN by_type[ty] ELSE 0) + 1
                            ELSE by_type[ty]],
                    !.alerts_by_severity[alert.severity] = @ + 1]
         IN  CountAlerts(counted, Tail(alerts))

\* process_task (lines 75-123), dt hours after the call before it
ProcessTaskCall(brand_id, platform, analyzed_data, dt) ==
    /\ now + dt <= MaxClock
    /\ LET t == now + dt
           spike == CheckNegativeSentimentSpike(analyzed_data, platform, t)
           crisis == CheckCrisisKeywords(analyzed_data, platform, t)
           volume == CheckVolumeSpike(analyzed_data, platform, brand_id,
                                      historical_data, t)
           trend == CheckSentimentDeterioration(analyzed_data, platform, brand_id,
                                                volume.hist, t)
           \* the rule at which the try block is left, 5 when none raises
           stopped == IF spike.raised THEN 1
                      ELSE IF crisis.raised THEN 2
                      ELSE IF volume.raised THEN 3
                      ELSE IF trend.raised THEN 4 ELSE 5
           alerts == spike.alerts \o crisis.alerts \o volume.alerts \o trend.alerts
           processed == ProcessAlerts(alerts, brand_id, active_alerts, t)
           \* the try block is left by a rule or by line 104
           body_raised == stopped <= 4 \/ SubscriptMetrics.raised
           \* the except branch is left by line 118
           handler_raised == SubscriptMetrics.raised
       IN  /\ now' = t
           /\ calls' = calls + 1
           /\ historical_data' = IF stopped <= 2 THEN historical_data
                                 ELSE IF stopped = 3 THEN volume.hist
                                 ELSE trend.hist
           /\ active_alerts' = IF stopped = 5 THEN processed.active ELSE active_alerts
           /\ ever_active' = IF stopped = 5
                             THEN ever_active
                                  \cup {Core(processed.alerts[i]) :
                                           i \in 1..Len(processed.alerts)}
                             ELSE ever_active
           /\ alert_stats' = IF stopped = 5
                             THEN CountAlerts([alert_stats EXCEPT !.total_alerts =
                                                   @ + Len(processed.alerts)],
                                              processed.alerts)
                             ELSE alert_stats
           /\ task' = [op |-> "process_task",
                       brand_id |-> brand_id,
                       platform |-> platform,
                       analyzed_data |-> analyzed_data,
                       evaluated |-> {RuleNames[i] : i \in 1..Min(stopped, 4)},
                       raised_in |-> IF stopped <= 4 THEN RuleNames[stopped] ELSE "none",
                       found |-> (IF stopped > 1 THEN spike.alerts ELSE <<>>)
                                 \o (IF stopped > 2 THEN crisis.alerts ELSE <<>>)
                                 \o (IF stopped > 3 THEN volume.alerts ELSE <<>>)
                                 \o (IF stopped > 4 THEN trend.alerts ELSE <<>>),
                       volume_averaged |-> IF stopped > 2 THEN volume.averaged ELSE <<>>,
                       sentiment_averaged |-> IF stopped > 3 THEN trend.averaged ELSE <<>>,
                       outcome |-> IF ~body_raised THEN "success"
                                   ELSE IF handler_raised THEN "raised" ELSE "error",
                       alerts |-> IF ~body_raised THEN processed.alerts ELSE <<>>]
    /\ UNCHANGED <<alert_history, sorting>>
    /\ UNCHANGED OutsideAlerts

\* process_task for some brand and platform, in the same second as the call
\* before it or an hour later
ProcessTask ==
    /\ calls < MaxAlertTasks
    /\ \E target \in Targets, analyzed_data \in AlertBatches, dt \in {0, 1} :
        ProcessTaskCall(target[1], target[2], analyzed_data, dt)

\* process_task on any batch, also one that a rule cannot read
EvaluateRules ==
    /\ calls < MaxRuleTasks
    /\ \E target \in Targets, analyzed_data \in RuleBatches, dt \in {0, 1} :
        ProcessTaskCall(target[1], target[2], analyzed_data, dt)

\* the monitoring of one brand on one platform: process_task an hour or
\* eight days after the call before it
MonitorBrand ==
    /\ calls < MaxWindowTasks
    /\ \E analyzed_data \in WindowBatches, dt \in {1, 8 * 24} :
        ProcessTaskCall(<<"acme">>, <<"twitter">>, analyzed_data, dt)

\* ids a caller may pass: the active ones and one that never was
\* the ids of the alerts that were resolved
ArchivedIds ==
    UNION {{alert_history[b][i].alert_id : i \in 1..Len(alert_history[b])} :
              b \in DOMAIN alert_history}

\* the ids a caller passes: of an active alert, of a resolved one, of none
SomeAlertIds ==
    DOMAIN active_alerts \cup ArchivedIds
    \cup {AlertId(<<"acme">>, <<"unknown">>, 0)}

\* a pop that leaves the alert where it is
Keep(alerts, alert_id) == alerts
\* what active_alerts.pop(alert_id) leaves (line 377)
Pop(alerts, alert_id) == [id \in DOMAIN alerts \ {alert_id} |-> alerts[id]]

\* acknowledge_alert (lines 365-373)
AcknowledgeAlert ==
    /\ \E alert_id \in SomeAlertIds, acknowledged_by \in Operators :
        /\ active_alerts' =
               IF alert_id \in DOMAIN active_alerts
               THEN [active_alerts EXCEPT ![alert_id] =
                        [@ EXCEPT !.acknowledged = TRUE,
                                  !.acknowledged_by = acknowledged_by,
                                  !.acknowledged_at = now]]
               ELSE active_alerts
        /\ task' = [op |-> "acknowledge_alert", alert_id |-> alert_id,
                    result |-> alert_id \in DOMAIN active_alerts]
    /\ UNCHANGED <<now, historical_data, alert_history, alert_stats, calls,
                   ever_active, sorting>>
    /\ UNCHANGED OutsideAlerts

\* resolve_alert (lines 375-391)
ResolveAlert ==
    /\ \E alert_id \in SomeAlertIds, resolved_by \in Operators :
        /\ IF alert_id \in DOMAIN active_alerts
           THEN LET alert == [active_alerts[alert_id] EXCEPT !.resolved = TRUE,
                                                            !.resolved_by = resolved_by,
                                                            !.resolved_at = now]
                    brand == alert.brand_id
                IN  /\ active_alerts' = Pop(active_alerts, alert_id)
                    /\ alert_history' =
                           [b \in DOMAIN alert_history \cup {brand} |->
                               IF b = brand
                               THEN Append(IF b \in DOMAIN alert_history
                                           THEN alert_history[b] ELSE <<>>, alert)
                               ELSE alert_history[b]]
           ELSE UNCHANGED <<active_alerts, alert_history>>
        /\ task' = [op |-> "resolve_alert", alert_id |-> alert_id,
                    result |-> alert_id \in DOMAIN active_alerts]
    /\ UNCHANGED <<now, historical_data, alert_stats, calls, ever_active, sorting>>
    /\ UNCHANGED OutsideAlerts

\* alert lists for a direct call of _process_alerts
AlertLists ==
    UNION {[1..n -> {Alert(type, severity, <<"twitter">>, 1, timestamp, FALSE) :
                        type \in {<<"volume", "spike">>, <<"sentiment", "deterioration">>},
                        severity \in Severities,
                        timestamp \in 0..1}] : n \in 0..MaxAlerts}

\* _process_alerts called on its own with some list of alerts
ProcessAlertsCall ==
    /\ ~sorting.called
    /\ \E alerts \in AlertLists, brand_id \in Brands :
        LET processed == ProcessAlerts(alerts, brand_id, active_alerts, now)
        IN  /\ sorting' = [called |-> TRUE, input |-> alerts, output |-> processed.alerts]
            /\ active_alerts' = processed.active
            /\ ever_active' = ever_active
                              \cup {Core(processed.alerts[i]) :
                                       i \in 1..Len(processed.alerts)}
    /\ UNCHANGED <<now, historical_data, alert_history, alert_stats, task, calls>>
    /\ UNCHANGED OutsideAlerts

----------------------------------------------------------------------------
(* Message passing: the inboxes of the workers, _execute_parallel and      *)
(* route_message of LangChainOrchestrator, the router of AgentOrchestrator *)
(*                                                                         *)
(* A queue holds far more messages than a behaviour sends, so a queue is   *)
(* its size before the behaviour (size, older) and the messages put on it  *)
(* since (got, msgs).  `await queue.put(m)` on a full asyncio.Queue        *)
(* suspends the caller until a consumer takes a message; it never raises   *)
(* QueueFull (only put_nowait does).                                       *)

QueueCapacity == 1000

RouterCapacity == 10000

MaxSends == 2

MaxConsumed == 2

\* the ids under which agents are registered with both orchestrators
Workers == {"w1", "w2"}

\* receivers a message can name: the workers and an id nobody registered
Receivers == Workers \cup {"ghost"}

\* the id lists _execute_parallel can be called with: no id twice
IdLists ==
    {ids \in UNION {[1..n -> Receivers] : n \in 1..3} :
        \A i, j \in 1..Len(ids) : i # j => ids[i] # ids[j]}

Message(id, receiver, via) == [id |-> id, receiver |-> receiver, via |-> via]

NoMessage == Message(0, "none", "none")

\* a message that was on the router queue before the behaviour starts
OlderMessage == Message(0, "w1", "router")

NoParallel ==
    [phase |-> "idle", agent_ids |-> <<>>, tasks |-> <<>>, agent_results |-> <<>>]

IdleCaller == [state |-> "idle", sent |-> 0, message |-> NoMessage]

MessagingIdle ==
    /\ message_queue = [w \in Workers |-> [size |-> 0, got |-> <<>>]]
    /\ stalled = {}
    /\ raising = {}
    /\ consumed = 0
    /\ par = NoParallel
    /\ message_router = [older |-> 0, msgs |-> <<>>]
    /\ router = [state |-> "waiting", message |-> NoMessage]
    /\ system_metrics = [total_messages_routed |-> 0, system_errors |-> 0]
    /\ callers = [path \in {"router", "direct"} |-> IdleCaller]

\* the variables outside the message passing
OutsideMessaging == <<policyVars, workflowVars, alertVars, monitoringVars,
    orchestrationVars,
    runVars,
    batchVars,
    registryVars,
    lifecycleVars>>

\* asyncio.Queue.full() of a worker's inbox
Full(queue) == queue.size >= QueueCapacity

\* asyncio.Queue.put on an inbox that has room
Put(queues, w, message) ==
    [queues EXCEPT ![w] = [size |-> @.size + 1, got |-> Append(@.got, message)]]

\* the message loop of a worker (LangChainBaseAgent.start) takes a message
Consume ==
    /\ consumed < MaxConsumed
    /\ \E w \in Workers \ stalled :
        /\ message_queue[w].size > 0
        /\ message_queue' = [message_queue EXCEPT ![w].size = @ - 1]
    /\ consumed' = consumed + 1
    /\ UNCHANGED <<stalled, raising, par, message_router, router, system_metrics,
                   callers, OutsideMessaging>>

(* LangChainOrchestrator._execute_parallel *)

\* the ids of agent_ids that are registered, in order: one coroutine each
RECURSIVE Registered(_)
Registered(agent_ids) ==
    IF agent_ids = <<>> THEN <<>>
    ELSE IF Head(agent_ids) \in Workers
         THEN <<Head(agent_ids)>> \o Registered(Tail(agent_ids))
         ELSE Registered(Tail(agent_ids))

\* the loop over agent_ids up to the call of asyncio.gather
ExecuteParallel ==
    /\ par.phase = "idle"
    /\ \E agent_ids \in IdLists :
        par' = [phase |-> "gathering",
                agent_ids |-> agent_ids,
                tasks |-> [i \in 1..Len(Registered(agent_ids)) |->
                             [agent_id |-> Registered(agent_ids)[i],
                              state |-> "pending"]],
                agent_results |-> <<>>]
    /\ UNCHANGED <<message_queue, stalled, raising, consumed, message_router, router,
                   system_metrics, callers, OutsideMessaging>>

\* send_to_agent: the event loop starts the coroutines in the order of the
\* list; each runs until receive_message returns, raises or suspends
SendToAgent ==
    /\ par.phase = "gathering"
    /\ \E i \in 1..Len(par.tasks) :
        /\ par.tasks[i].state = "pending"
        /\ \A j \in 1..(i - 1) : par.tasks[j].state # "pending"
        /\ LET w == par.tasks[i].agent_id IN
            IF w \in raising
            THEN /\ par' = [par EXCEPT !.tasks[i].state = "raised"]
                 /\ UNCHANGED message_queue
            ELSE IF Full(message_queue[w])
            THEN /\ par' = [par EXCEPT !.tasks[i].state = "suspended"]
                 /\ UNCHANGED message_queue
            ELSE /\ par' = [par EXCEPT !.tasks[i].state = "completed"]
                 /\ message_queue' = Put(message_queue, w, Message(0, w, "parallel"))
    /\ UNCHANGED <<stalled, raising, consumed, message_router, router, system_metrics,
                   callers, OutsideMessaging>>

\* a suspended send_to_agent goes on when its inbox has room again
ResumeSendToAgent ==
    /\ par.phase = "gathering"
    /\ \E i \in 1..Len(par.tasks) :
        LET w == par.tasks[i].agent_id IN
        /\ par.tasks[i].state = "suspended"
        /\ ~Full(message_queue[w])
        /\ par' = [par EXCEPT !.tasks[i].state = "completed"]
        /\ message_queue' = Put(message_queue, w, Message(0, w, "parallel"))
    /\ UNCHANGED <<stalled, raising, consumed, message_router, router, system_metrics,
                   callers, OutsideMessaging>>

\* the entry the result loop writes for results[i]
ResultEntry(parallel_task) ==
    [kind |-> IF parallel_task.state = "raised" THEN "error" ELSE "success",
     by |-> parallel_task.agent_id]

\* the result loop: results[i], the result of the i-th coroutine, is stored
\* under agent_ids[i], the i-th id of the list the call was given
AgentResults(agent_ids, tasks) ==
    [id \in {agent_ids[i] : i \in 1..Len(tasks)} |->
        ResultEntry(tasks[CHOOSE i \in 1..Len(tasks) : agent_ids[i] = id])]

\* asyncio.gather returns once every coroutine returned or raised
GatherReturn ==
    /\ par.phase = "gathering"
    /\ \A i \in 1..Len(par.tasks) : par.tasks[i].state \in {"completed", "raised"}
    /\ par' = [par EXCEPT !.phase = "returned",
                          !.agent_results = AgentResults(par.agent_ids, par.tasks)]
    /\ UNCHANGED <<message_queue, stalled, raising, consumed, message_router, router,
                   system_metrics, callers, OutsideMessaging>>

(* AgentOrchestrator: route_message, _route_messages, _deliver_message *)

RouterSize == message_router.older + Len(message_router.msgs)

\* the message that message_router.get() returns next
NextRouted ==
    IF message_router.older > 0 THEN OlderMessage ELSE Head(message_router.msgs)

\* message_router after get()
AfterGet ==
    IF message_router.older > 0
    THEN [message_router EXCEPT !.older = @ - 1]
    ELSE [message_router EXCEPT !.msgs = Tail(@)]

Counted(metrics, key) == [metrics EXCEPT ![key] = @ + 1]

\* route_message: await message_router.put(message)
RouteMessage ==
    /\ callers["router"].state = "idle"
    /\ callers["router"].sent < MaxSends
    /\ \E receiver \in Receivers :
        LET message == Message(callers["router"].sent + 1, receiver, "router") IN
        IF RouterSize >= RouterCapacity
        THEN /\ callers' = [callers EXCEPT !["router"] =
                               [state |-> "suspended", sent |-> @.sent + 1,
                                message |-> message]]
             /\ UNCHANGED message_router
        ELSE /\ callers' = [callers EXCEPT !["router"].sent = @ + 1]
             /\ message_router' = [message_router EXCEPT !.msgs = Append(@, message)]
    /\ UNCHANGED <<message_queue, stalled, raising, consumed, par, router,
                   system_metrics, OutsideMessaging>>

\* a suspended route_message goes on when the router queue has room again
ResumeRouteMessage ==
    /\ callers["router"].state = "suspended"
    /\ RouterSize < RouterCapacity
    /\ message_router' =
           [message_router EXCEPT !.msgs = Append(@, callers["router"].message)]
    /\ callers' = [callers EXCEPT !["router"].state = "idle",
                                  !["router"].message = NoMessage]
    /\ UNCHANGED <<message_queue, stalled, raising, consumed, par, router,
                   system_metrics, OutsideMessaging>>

\* one round of the loop of _route_messages: get a message, _deliver_message
RouteMessages ==
    /\ router.state = "waiting"
    /\ RouterSize > 0
    /\ message_router' = AfterGet
    /\ LET message == NextRouted
           receiver == message.receiver
       IN
        IF receiver \notin Workers
        THEN \* logger.warning
             /\ system_metrics' = Counted(system_metrics, "total_messages_routed")
             /\ UNCHANGED <<message_queue, router>>
        ELSE IF receiver \in raising
        THEN \* the except branch of _deliver_message
             /\ system_metrics' =
                    Counted(Counted(system_metrics, "system_errors"),
                            "total_messages_routed")
             /\ UNCHANGED <<message_queue, router>>
        ELSE IF Full(message_queue[receiver])
        THEN /\ router' = [state |-> "suspended", message |-> message]
             /\ UNCHANGED <<message_queue, system_metrics>>
        ELSE /\ message_queue' = Put(message_queue, receiver, message)
             /\ system_metrics' = Counted(system_metrics, "total_messages_routed")
             /\ UNCHANGED router
    /\ UNCHANGED <<stalled, raising, consumed, par, callers, OutsideMessaging>>

\* the suspended _deliver_message goes on when the inbox has room again
ResumeDeliverMessage ==
    /\ router.state = "suspended"
    /\ ~Full(message_queue[router.message.receiver])
    /\ message_queue' = Put(message_queue, router.message.receiver, router.message)
    /\ system_metrics' = Counted(system_metrics, "total_messages_routed")
    /\ router' = [state |-> "waiting", message |-> NoMessage]
    /\ UNCHANGED <<stalled, raising, consumed, par, message_router, callers,
                   OutsideMessaging>>

(* LangChainOrchestrator.route_message *)

\* the receiver is looked up and receive_message awaited; an exception of
\* receive_message passes to the caller
RouteDirect ==
    /\ callers["direct"].state \in {"idle", "raised"}
    /\ callers["direct"].sent < MaxSends
    /\ \E receiver \in Receivers :
        LET message == Message(callers["direct"].sent + 1, receiver, "direct")
            after(outcome) == [state |-> outcome, sent |-> message.id,
                               message |-> message]
        IN
        IF receiver \notin Workers
        THEN \* logger.warning
             /\ callers' = [callers EXCEPT !["direct"] = after("idle")]
             /\ UNCHANGED message_queue
        ELSE IF receiver \in raising
        THEN /\ callers' = [callers EXCEPT !["direct"] = after("raised")]
             /\ UNCHANGED message_queue
        ELSE IF Full(message_queue[receiver])
        THEN /\ callers' = [callers EXCEPT !["direct"] = after("suspended")]
             /\ UNCHANGED message_queue
        ELSE /\ callers' = [callers EXCEPT !["direct"] = after("idle")]
             /\ message_queue' = Put(message_queue, receiver, message)
    /\ UNCHANGED <<stalled, raising, consumed, par, message_router, router,
                   system_metrics, OutsideMessaging>>

\* the suspended route_message goes on when the inbox has room again
ResumeRouteDirect ==
    /\ callers["direct"].state = "suspended"
    /\ ~Full(message_queue[callers["direct"].message.receiver])
    /\ message_queue' = Put(message_queue, callers["direct"].message.receiver,
                            callers["direct"].message)
    /\ callers' = [callers EXCEPT !["direct"].state = "idle"]
    /\ UNCHANGED <<stalled, raising, consumed, par, message_router, router,
                   system_metrics, OutsideMessaging>>
----------------------------------------------------------------------------
(* Data collection agent: continuous monitoring                            *)
(*                                                                         *)
(* The agent runs on one event loop: a method runs until it awaits, and a  *)
(* monitoring loop is a task that waits at its start, in the sleep of the  *)
(* collection interval or in the sleep before a retry.  task.cancel()      *)
(* marks the task; the event loop then raises CancelledError in it at the  *)
(* await where it waits, before it runs any other code of the task.        *)

MaxLoops == 3

MaxCollections == 2

MaxMonitorCalls == 4

MonitoredBrands == {"acme", "globex"}

\* the platforms of self.platforms, and a name that is not among them
Supported == {"twitter", "reddit"}

PlatformLists == {<<>>, <<"twitter", "reddit">>, <<"myspace">>}

Configs == [brand_id : MonitoredBrands, platforms : PlatformLists]

NoCall == [n |-> 0, op |-> "none", brand_id |-> "none"]

MonitoringIdle ==
    /\ active_monitoring = <<>>
    /\ loops = <<>>
    /\ monitor_call = NoCall

\* the variables outside the data collection agent
OutsideMonitoring == <<policyVars, workflowVars, alertVars, messagingVars,
    orchestrationVars,
    runVars,
    batchVars,
    registryVars,
    lifecycleVars>>

\* active_monitoring with the entry of brand_id set / deleted
WithEntry(registry, brand_id, entry) ==
    [b \in DOMAIN registry \cup {brand_id} |->
        IF b = brand_id THEN entry ELSE registry[b]]

WithoutEntry(registry, brand_id) ==
    [b \in DOMAIN registry \ {brand_id} |-> registry[b]]

\* asyncio.create_task(self._monitoring_loop(config))
CreateTask(config) ==
    [brand_id |-> config.brand_id, platforms |-> config.platforms,
     at |-> "start", cancel_requested |-> FALSE, collected |-> 0,
     stopped |-> FALSE]

\* _start_continuous_monitoring
StartContinuousMonitoring ==
    /\ monitor_call.n < MaxMonitorCalls
    /\ \E config \in Configs :
        IF config.brand_id \notin DOMAIN active_monitoring
        THEN /\ Len(loops) < MaxLoops
             /\ loops' = Append(loops, CreateTask(config))
             /\ active_monitoring' =
                    WithEntry(active_monitoring, config.brand_id,
                              [config |-> config, task |-> Len(loops) + 1])
             /\ monitor_call' = [n |-> monitor_call.n + 1, op |-> "start",
                                 brand_id |-> config.brand_id]
        ELSE /\ monitor_call' = [n |-> monitor_call.n + 1, op |-> "start_again",
                                 brand_id |-> config.brand_id]
             /\ UNCHANGED <<loops, active_monitoring>>
    /\ UNCHANGED OutsideMonitoring

\* task.cancel() without effect
CancelNothing(loop) == loop

\* task.cancel()
Cancel(loop) ==
    IF loop.at = "done" THEN loop ELSE [loop EXCEPT !.cancel_requested = TRUE]

\* _stop_continuous_monitoring
StopContinuousMonitoring ==
    /\ monitor_call.n < MaxMonitorCalls
    /\ \E brand_id \in MonitoredBrands :
        /\ monitor_call' = [n |-> monitor_call.n + 1, op |-> "stop",
                            brand_id |-> brand_id]
        /\ IF brand_id \in DOMAIN active_monitoring
           THEN LET i == active_monitoring[brand_id].task IN
                /\ loops' = [loops EXCEPT ![i] = [Cancel(@) EXCEPT !.stopped = TRUE]]
                /\ active_monitoring' = WithoutEntry(active_monitoring, brand_id)
           ELSE UNCHANGED <<loops, active_monitoring>>
    /\ UNCHANGED OutsideMonitoring

\* One pass of the for loop of _monitoring_loop over the platforms from
\* position k.  process_task returns an error dict for a platform that is
\* not supported; for a supported one it collects and then evaluates
\* self.metrics["tasks_processed"], which raises, and so does
\* self.metrics["errors"] in its except branch: the exception reaches the
\* loop, which logs it and sleeps before the retry.
RECURSIVE CollectFrom(_, _)
CollectFrom(platforms, k) ==
    IF k > Len(platforms) THEN [collected |-> 0, at |-> "interval_sleep"]
    ELSE IF platforms[k] \notin Supported THEN CollectFrom(platforms, k + 1)
    ELSE IF SubscriptMetrics.raised THEN [collected |-> 1, at |-> "retry_sleep"]
    ELSE [collected |-> 1 + CollectFrom(platforms, k + 1).collected,
          at |-> CollectFrom(platforms, k + 1).at]

\* the event loop runs the task of a monitoring loop that is due
MonitoringLoop ==
    /\ \E i \in 1..Len(loops) :
        /\ loops[i].at # "done"
        /\ IF loops[i].cancel_requested
           THEN \* CancelledError at the await: not started, break, or left
                \* through the except branch
                loops' = [loops EXCEPT ![i].at = "done"]
           ELSE /\ loops[i].collected < MaxCollections
                /\ loops' = [loops EXCEPT
                       ![i].collected = @ + CollectFrom(loops[i].platforms, 1).collected,
                       ![i].at = CollectFrom(loops[i].platforms, 1).at]
    /\ UNCHANGED <<active_monitoring, monitor_call, OutsideMonitoring>>
----------------------------------------------------------------------------
(* LangChainOrchestrator: orchestrate_task_strategically                   *)
(*                                                                         *)
(* A duration is a whole number of seconds; avg_completion_time is the     *)
(* fraction num/den that the update formula produces, never reduced.       *)

MaxOrchestrations == 3

Durations == {1, 2, 5}

\* OrchestrationTask(...): status has the default "pending"; history is the
\* values status has had
OrchestrationTask ==
    [status |-> "pending", history |-> <<"pending">>, at |-> "planning",
     planned |-> FALSE, strategy_ran |-> FALSE, strategy_raised |-> FALSE,
     executed_by |-> {}]

\* self.orchestration_metrics of __init__ (lines 258-265): the dict has no
\* key for a success rate
NoMetrics ==
    [total_tasks |-> 0, successful_tasks |-> 0, failed_tasks |-> 0,
     avg_completion_time |-> [num |-> 0, den |-> 1],
     has_success_rate |-> FALSE]

\* the entry register_agent writes (lines 330-334), success_rate and
\* avg_response_time in hundredths
RegisteredPerformance ==
    [success_rate |-> 80, avg_response_time |-> 200, tasks_completed |-> 0]

\* An orchestrator with the workers registered and no task yet.
OrchestratorInit ==
    /\ orchestration_tasks = <<>>
    /\ active_tasks = {}
    /\ completed_tasks = <<>>
    /\ orchestration_metrics = NoMetrics
    /\ agent_performance = [w \in Workers |-> RegisteredPerformance]
    /\ finished = <<>>

\* the variables outside orchestrate_task_strategically
OutsideOrchestration ==
    <<policyVars, workflowVars, alertVars, messagingVars, monitoringVars,
    runVars,
    batchVars,
    registryVars,
    lifecycleVars>>

\* task.status = value
WithStatus(orchestration_task, value) ==
    [orchestration_task EXCEPT !.status = value, !.history = Append(@, value)]

\* The class body defines _extract_execution_plan twice (lines 487 and
\* 986); the second definition replaces the first, so the call of line 437
\* returns the list of steps of lines 990-1029, not the dict of lines
\* 512-517.
ExtractExecutionPlan == [is_dict |-> FALSE]

\* _execute_orchestration_plan: execution_plan.get (line 527) raises
\* AttributeError on a list, before any strategy is chosen; on a dict the
\* strategy runs with the selected agents and raises or returns
ExecuteOrchestrationPlan(execution_plan, selected_agents, strategy_raises) ==
    IF ~execution_plan.is_dict
    THEN [raised |-> TRUE, strategy_ran |-> FALSE, executed_by |-> {}]
    ELSE [raised |-> strategy_raises, strategy_ran |-> TRUE,
          executed_by |-> selected_agents]

\* (current_avg * (total_tasks - 1) + duration) / total_tasks
RunningAverage(current_avg, total_tasks, duration) ==
    [num |-> current_avg.num * (total_tasks - 1) + duration * current_avg.den,
     den |-> current_avg.den * total_tasks]

\* _update_orchestration_metrics
UpdateOrchestrationMetrics(metrics, success, duration) ==
    [metrics EXCEPT
        !.total_tasks = @ + 1,
        !.successful_tasks = IF success THEN @ + 1 ELSE @,
        !.failed_tasks = IF success THEN @ ELSE @ + 1,
        !.avg_completion_time =
            RunningAverage(@, metrics.total_tasks + 1, duration)]

\* orchestrate_task_strategically up to the await of think_and_act
\* (lines 353-420)
OrchestrateTaskStrategically ==
    /\ Len(orchestration_tasks) < MaxOrchestrations
    /\ orchestration_tasks' = Append(orchestration_tasks, OrchestrationTask)
    /\ UNCHANGED <<active_tasks, completed_tasks, orchestration_metrics,
                   agent_performance, finished, OutsideOrchestration>>

\* think_and_act returned: the rest of orchestrate_task_strategically
\* (lines 422-485).  The exception of _execute_orchestration_plan is raised
\* before any await, so the rest runs without interruption.
PlanningReturned ==
    \E i \in 1..Len(orchestration_tasks) :
    \E success \in BOOLEAN, strategy_raises \in BOOLEAN, duration \in Durations :
    \E selected_agents \in SUBSET Workers :
        /\ orchestration_tasks[i].at = "planning"
        /\ IF ~success
           THEN /\ orchestration_tasks' =
                       [orchestration_tasks EXCEPT ![i].at = "returned"]
                /\ UNCHANGED <<active_tasks, completed_tasks, orchestration_metrics,
                               finished>>
           ELSE LET executing == WithStatus(orchestration_tasks[i], "executing")
                    execution == ExecuteOrchestrationPlan(ExtractExecutionPlan,
                                                          selected_agents,
                                                          strategy_raises)
                    ran == [executing EXCEPT
                               !.planned = TRUE,
                               !.at = "returned",
                               !.strategy_ran = execution.strategy_ran,
                               !.strategy_raised =
                                   execution.strategy_ran /\ execution.raised,
                               !.executed_by = execution.executed_by]
                IN  /\ IF execution.raised
                       THEN /\ orchestration_tasks' =
                                   [orchestration_tasks EXCEPT
                                       ![i] = WithStatus(ran, "failed")]
                            /\ active_tasks' = active_tasks \cup {i}
                            /\ UNCHANGED completed_tasks
                       ELSE /\ orchestration_tasks' =
                                   [orchestration_tasks EXCEPT
                                       ![i] = WithStatus(ran, "completed")]
                            /\ completed_tasks' = Append(completed_tasks, i)
                            /\ active_tasks' = active_tasks \ {i}
                    /\ orchestration_metrics' =
                           UpdateOrchestrationMetrics(orchestration_metrics,
                                                      ~execution.raised, duration)
                    /\ finished' = Append(finished,
                                          [task |-> i, success |-> ~execution.raised,
                                           duration |-> duration])
        /\ UNCHANGED <<agent_performance, OutsideOrchestration>>
----------------------------------------------------------------------------
(* Several runs of execute_autonomous_goal                                 *)
(*                                                                         *)
(* A dict is an object: contexts is the heap of the context dicts, and a   *)
(* run holds the position of the dict that state["context"] refers to.     *)
(* The graph hands the values of the state to the nodes by reference, so   *)
(* an assignment state["context"][key] = value changes that dict.  Of a    *)
(* run only the nodes and routing functions that write to the context or   *)
(* to the step lists are followed: initialize_workflow, collect_data and   *)
(* _route_after_data_collection.                                           *)

MaxRuns == 2

MaxSeconds == 2

\* the dict the caller keeps and may pass to several calls; it is not
\* empty (it has a brand_name), so `context or {}` is the dict itself
CallerContext == [crisis_mode |-> FALSE, data_collection_retries |-> 0]

\* the dict that `context or {}` creates when context is None or empty
EmptyContext == [crisis_mode |-> FALSE, data_collection_retries |-> 0]

RunsIdle ==
    /\ contexts = <<CallerContext>>
    /\ runs = <<>>
    /\ clock = 0

\* the variables outside the runs
OutsideRuns ==
    <<policyVars, workflowVars, alertVars, messagingVars, monitoringVars,
      orchestrationVars,
    batchVars,
    registryVars,
    lifecycleVars>>

\* f"wf_{int(datetime.now().timestamp())}" (line 194)
WorkflowId(second) == <<"wf", second>>

\* time passes
Tick ==
    /\ clock < MaxSeconds
    /\ clock' = clock + 1
    /\ UNCHANGED <<contexts, runs, OutsideRuns>>

\* execute_autonomous_goal up to the call of ainvoke (lines 190-214);
\* passes_context: the caller passes its dict, otherwise None
StartRun ==
    /\ Len(runs) < MaxRuns
    /\ \E crisis_goal \in BOOLEAN, passes_context \in BOOLEAN :
        /\ contexts' = IF passes_context THEN contexts
                       ELSE Append(contexts, EmptyContext)
        /\ runs' = Append(runs,
               [workflow_id |-> WorkflowId(clock),
                goal_mentions_crisis |-> crisis_goal,
                context |-> IF passes_context THEN 1 ELSE Len(contexts) + 1,
                at |-> "initialize_workflow",
                completed_steps |-> <<>>,
                failed_steps |-> <<>>,
                retried |-> 0])
    /\ UNCHANGED <<clock, OutsideRuns>>

\* _initialize_workflow_node of run i
RunInitializeWorkflow ==
    /\ \E i \in 1..Len(runs) :
        /\ runs[i].at = "initialize_workflow"
        /\ runs' = [runs EXCEPT ![i].at = "collect_data",
                                ![i].completed_steps = Append(@, "initialize_workflow")]
        /\ contexts' =
               IF runs[i].goal_mentions_crisis
               THEN [contexts EXCEPT ![runs[i].context].crisis_mode = TRUE]
               ELSE contexts
    /\ UNCHANGED <<clock, OutsideRuns>>

\* _data_collection_node of run i: the step is completed or failed
RunDataCollection ==
    /\ \E i \in 1..Len(runs), success \in BOOLEAN :
        /\ runs[i].at = "collect_data"
        /\ runs' = [runs EXCEPT
               ![i].at = "route_after_data_collection",
               ![i].completed_steps = IF success THEN Append(@, "collect_data") ELSE @,
               ![i].failed_steps = IF success THEN @ ELSE Append(@, "collect_data")]
    /\ UNCHANGED <<contexts, clock, OutsideRuns>>

\* _route_after_data_collection of run i; a run that does not retry leaves
\* the part of the graph that is followed here; retried is the history of
\* the retries the run has taken
RunRouteAfterDataCollection ==
    /\ \E i \in 1..Len(runs) :
        LET retry_count == contexts[runs[i].context].data_collection_retries IN
        /\ runs[i].at = "route_after_data_collection"
        /\ IF Contains(runs[i].failed_steps, "collect_data") /\ MayRetry(retry_count)
           THEN /\ contexts' = [contexts EXCEPT
                       ![runs[i].context].data_collection_retries = retry_count + 1]
                /\ runs' = [runs EXCEPT ![i].at = "collect_data",
                                        ![i].retried = @ + 1]
           ELSE /\ runs' = [runs EXCEPT ![i].at = "left"]
                /\ UNCHANGED contexts
    /\ UNCHANGED <<clock, OutsideRuns>>
----------------------------------------------------------------------------
(* IntelligentResponseAgent: batch_generate_responses                      *)
(*                                                                         *)
(* The batch creates one coroutine per mention and gathers them with       *)
(* return_exceptions=True; a semaphore of five permits bounds how many     *)
(* generate at once.  A mention is its id and what its generation does:    *)
(* it returns the generated response, it returns the fallback response     *)
(* (think_and_act reported a failure), or it raises.  asyncio starts the   *)
(* coroutines in list order and wakes the waiters of a semaphore in the    *)
(* order they arrived, so permits are taken in list order; generations     *)
(* end in any order.                                                       *)
MaxBatch == 6
ConcurrentGenerations == 5
GenerationOutcomes == {"generated", "fallback", "raises"}
MentionId(k) == <<"id", 10 + ((3 * k) % 8)>>
Batches ==
    UNION {[1..n -> GenerationOutcomes] : n \in 0..MaxBatch}
MentionsOf(outcomes) ==
    [k \in 1..Len(outcomes) |-> [id |-> MentionId(k), outcome |-> outcomes[k]]]
ErrorOf(mention) == <<"error of", mention.id>>

BatchIdle ==
    /\ batch = [status |-> "idle", mentions |-> <<>>, phase |-> <<>>,
                permits |-> 0, gathered |-> <<>>, results |-> <<>>]
    /\ response_metrics = [total_responses_generated |-> 0,
                           successful_responses |-> 0]
OutsideBatch ==
    <<policyVars, workflowVars, alertVars, messagingVars, monitoringVars,
      orchestrationVars, runVars,
    registryVars,
    lifecycleVars>>

(* generate_intelligent_response, as far as the batch sees it *)
GenerateIntelligentResponse(mention) ==
    CASE mention.outcome = "raises" ->
           [raised |-> TRUE, exception |-> ErrorOf(mention)]
      [] mention.outcome = "fallback" ->
           [raised |-> FALSE,
            value |-> [success |-> TRUE, mention_id |-> <<>>,
                       fallback_mode |-> TRUE, error |-> <<>>]]
      [] OTHER ->
           [raised |-> FALSE,
            value |-> [success |-> TRUE, mention_id |-> mention.id,
                       fallback_mode |-> FALSE, error |-> <<>>]]

UpdateResponseMetrics(metrics, result) ==
    [total_responses_generated |-> metrics.total_responses_generated + 1,
     successful_responses |->
         metrics.successful_responses + (IF result.success THEN 1 ELSE 0)]

(* the record the batch puts where a generation raised *)
FailureRecordByPosition(mentions, i, exception) ==
    [success |-> FALSE, mention_id |-> <<"mention", i - 1>>,
     fallback_mode |-> FALSE, error |-> exception]
FailureRecord(mentions, i, exception) ==
    [success |-> FALSE, mention_id |-> mentions[i].id,
     fallback_mode |-> FALSE, error |-> exception]

ProcessResults(mentions, gathered) ==
    [i \in 1..Len(gathered) |->
        IF gathered[i].raised
        THEN FailureRecord(mentions, i, gathered[i].exception)
        ELSE gathered[i].value]

BatchGenerateResponses ==
    /\ batch.status = "idle"
    /\ \E outcomes \in Batches :
          batch' = [status |-> "gathering",
                    mentions |-> MentionsOf(outcomes),
                    phase |-> [k \in 1..Len(outcomes) |-> "pending"],
                    permits |-> ConcurrentGenerations,
                    gathered |-> [k \in 1..Len(outcomes) |-> [raised |-> FALSE]],
                    results |-> <<>>]
    /\ UNCHANGED <<response_metrics, OutsideBatch>>

(* `async with semaphore`: entering *)
GenerateSingleResponse ==
    /\ batch.status = "gathering"
    /\ batch.permits > 0
    /\ \E i \in 1..Len(batch.mentions) :
          /\ batch.phase[i] = "pending"
          /\ \A j \in 1..(i - 1) : batch.phase[j] # "pending"
          /\ batch' = [batch EXCEPT !.phase[i] = "generating",
                                    !.permits = @ - 1]
    /\ UNCHANGED <<response_metrics, OutsideBatch>>

(* the generation returns or raises; leaving `async with` gives the permit *)
(* back either way                                                         *)
SingleResponseEnds ==
    /\ batch.status = "gathering"
    /\ \E i \in 1..Len(batch.mentions) :
          /\ batch.phase[i] = "generating"
          /\ LET outcome == GenerateIntelligentResponse(batch.mentions[i])
             IN  /\ batch' = [batch EXCEPT !.phase[i] = "ended",
                                           !.permits = @ + 1,
                                           !.gathered[i] = outcome]
                 /\ response_metrics' =
                      IF ~outcome.raised /\ ~outcome.value.fallback_mode
                      THEN UpdateResponseMetrics(response_metrics, outcome.value)
                      ELSE response_metrics
    /\ UNCHANGED OutsideBatch

(* gather returns when every coroutine has ended *)
BatchReturns ==
    /\ batch.status = "gathering"
    /\ \A i \in 1..Len(batch.mentions) : batch.phase[i] = "ended"
    /\ batch' = [batch EXCEPT !.status = "returned",
                              !.results = ProcessResults(batch.mentions,
                                                         batch.gathered)]
    /\ UNCHANGED <<response_metrics, OutsideBatch>>

----------------------------------------------------------------------------
(* Alert management agent: the two rules without a window, called on      *)
(* their own                                                               *)

\* items of one kind in a batch of the negative-sentiment rule
MaxOfKind == 10

\* a batch of a negative items exactly on the confidence threshold, b and c
\* negative items above it (0.75 and 0.85) and d confident neutral items
SpikeBatch(a, b, c, d) ==
    Repeat(Item(TRUE, "negative", NEGATIVE_SENTIMENT_THRESHOLD, FALSE, "low"), a)
    \o Repeat(Item(TRUE, "negative", 75, FALSE, "low"), b)
    \o Repeat(Item(TRUE, "neutral", 90, FALSE, "low"), d)
    \o Repeat(Item(TRUE, "negative", 85, FALSE, "low"), c)

\* _check_negative_sentiment_spike called with some batch
CheckNegativeSentimentSpikeCall ==
    /\ task.op = "none"
    /\ \E a \in 0..1, b \in 0..MaxOfKind, c \in 0..MaxOfKind, d \in 0..1 :
        LET data == SpikeBatch(a, b, c, d)
        IN  task' = [op |-> "check_negative_sentiment_spike",
                     analyzed_data |-> data,
                     alerts |-> CheckNegativeSentimentSpike(data, <<"twitter">>, now).alerts]
    /\ UNCHANGED <<now, historical_data, active_alerts, alert_history, alert_stats,
                   calls, ever_active, sorting>>
    /\ UNCHANGED OutsideAlerts

\* items in a batch of the crisis-keyword rule
MaxCrisisItems == 3

\* an item with crisis_indicators: has_indicators, risk_level and keywords
CrisisIndicators(has_indicators, risk_level, keywords) ==
    [sentiment_is_dict |-> TRUE, overall |-> "negative", confidence |-> 50,
     has_indicators |-> has_indicators, risk_level |-> risk_level,
     keywords |-> keywords]

CrisisItemKinds ==
    {CrisisIndicators(FALSE, "low", {"scam"}),
     CrisisIndicators(TRUE, "low", {"boycott"}),
     CrisisIndicators(TRUE, "medium", {}),
     CrisisIndicators(TRUE, "high", {"lawsuit"}),
     CrisisIndicators(TRUE, "critical", {"boycott", "fraud"})}

\* risk_groups of _check_crisis_keywords as the count of each group
\* (lines 189-195, 204)
RiskDistribution(crisis_mentions) ==
    [risk \in {crisis_mentions[i].risk_level : i \in 1..Len(crisis_mentions)} |->
        Cardinality({i \in 1..Len(crisis_mentions) : crisis_mentions[i].risk_level = risk})]

\* a keyword list that also reads the mentions without indicators
ExtractKeywordsOfAll(data) ==
    UNION {data[i].keywords : i \in 1..Len(data)}

\* _extract_detected_keywords (lines 351-357) on the crisis mentions
ExtractDetectedKeywords(data) ==
    LET crisis_mentions == SelectSeq(data, HasIndicators)
    IN  UNION {crisis_mentions[i].keywords : i \in 1..Len(crisis_mentions)}

\* _check_crisis_keywords called with some batch; details are the fields of
\* the alert that only this rule sets
CheckCrisisKeywordsCall ==
    /\ task.op = "none"
    /\ \E n \in 0..MaxCrisisItems :
       \E data \in [1..n -> CrisisItemKinds] :
        LET result == CheckCrisisKeywords(data, <<"twitter">>, now)
        IN  task' = [op |-> "check_crisis_keywords",
                     analyzed_data |-> data,
                     alerts |-> result.alerts,
                     details |->
                         IF result.alerts = <<>> THEN <<>>
                         ELSE <<[risk_distribution |->
                                     RiskDistribution(SelectSeq(data, HasIndicators)),
                                 keywords_detected |-> ExtractDetectedKeywords(data)]>>]
    /\ UNCHANGED <<now, historical_data, active_alerts, alert_history, alert_stats,
                   calls, ever_active, sorting>>
    /\ UNCHANGED OutsideAlerts

----------------------------------------------------------------------------
(* Alert management agent: the volume rule called on its own               *)

\* calls of _check_volume_spike in a run
MaxVolumeCalls == 11

\* the pair that is monitored call after call, and a second pair that
\* reports once in between
VolumeTarget == <<<<"acme">>, <<"twitter">>>>

OtherVolumeTarget == <<<<"acme">>, <<"reddit">>>>

\* batches of no mention and of four
VolumeBatches == {<<>>, Repeat(CalmItem, 4)}

CheckVolumeSpikeOf(target, analyzed_data, dt) ==
    LET t == now + dt
        volume == CheckVolumeSpike(analyzed_data, target[2], target[1],
                                   historical_data, t)
    IN  /\ now' = t
        /\ calls' = calls + 1
        /\ historical_data' = volume.hist
        /\ task' = [op |-> "check_volume_spike",
                    brand_id |-> target[1],
                    platform |-> target[2],
                    analyzed_data |-> analyzed_data,
                    before |-> historical_data,
                    alerts |-> volume.alerts]
        /\ UNCHANGED <<active_alerts, alert_history, alert_stats, ever_active, sorting>>
        /\ UNCHANGED OutsideAlerts

\* _check_volume_spike for the monitored pair, an hour or eight days after
\* the call before it
CheckVolumeSpikeCall ==
    /\ calls < MaxVolumeCalls
    /\ \E analyzed_data \in VolumeBatches, dt \in {1, 8 * 24} :
        /\ now + dt <= MaxClock
        /\ CheckVolumeSpikeOf(VolumeTarget, analyzed_data, dt)

\* _check_volume_spike for the second pair, in the same hour
CheckOtherVolumeCall ==
    /\ calls < MaxVolumeCalls
    /\ OtherVolumeTarget[1] \o OtherVolumeTarget[2] \notin DOMAIN historical_data
    /\ CheckVolumeSpikeOf(OtherVolumeTarget, Repeat(CalmItem, 4), 0)

----------------------------------------------------------------------------
(* Alert management agent: the deterioration rule called on its own        *)

\* calls of _check_sentiment_deterioration in a run
MaxTrendCalls == 6

\* batches with a negative ratio of 0, 0.5 and 1, and the empty batch
TrendBatches == {<<>>, <<CalmItem>>, <<CalmItem, AngryItem>>, <<AngryItem>>}

\* _check_sentiment_deterioration for one brand and platform, an hour or
\* twenty-five hours after the call before it
CheckSentimentDeteriorationCall ==
    /\ calls < MaxTrendCalls
    /\ \E analyzed_data \in TrendBatches, dt \in {1, SentimentWindow + 1} :
        LET t == now + dt
            trend == CheckSentimentDeterioration(analyzed_data, <<"twitter">>, <<"acme">>,
                                                 historical_data, t)
        IN  /\ t <= MaxClock
            /\ now' = t
            /\ calls' = calls + 1
            /\ historical_data' = trend.hist
            /\ task' = [op |-> "check_sentiment_deterioration",
                        brand_id |-> <<"acme">>,
                        platform |-> <<"twitter">>,
                        analyzed_data |-> analyzed_data,
                        before |-> historical_data,
                        alerts |-> trend.alerts]
    /\ UNCHANGED <<active_alerts, alert_history, alert_stats, ever_active, sorting>>
    /\ UNCHANGED OutsideAlerts

----------------------------------------------------------------------------
(* LangChainOrchestrator: register_agent and _select_agents_by_capability  *)
(*                                                                         *)
(* The dicts of the registry keep the order in which their keys were       *)
(* inserted; register_agent inserts the same key into all of them, so one  *)
(* sequence of ids, registered_agents, is the order of each.               *)

MaxAgents == 6

RegistrableIds == 1..MaxAgents

\* agent.capabilities of the agent with this id
CapabilitiesOf(agent_id) ==
    CASE agent_id % 3 = 1 -> {"data_collection"}
      [] agent_id % 3 = 2 -> {"data_collection", "sentiment_analysis"}
      [] OTHER -> {"alert_management"}

AgentCapabilities ==
    {"data_collection", "sentiment_analysis", "alert_management"}

\* the requirements that are asked for
Requirements == SUBSET {"data_collection", "alert_management"}

\* the slice of line 766
MaxSelected == 5

NoSelection == [called |-> FALSE, required_capabilities |-> {}, result |-> <<>>]

\* the orchestrator of __init__ (lines 240-243): nobody is registered
RegistryIdle ==
    /\ registered_agents = <<>>
    /\ agent_capabilities = <<>>
    /\ agent_availability = <<>>
    /\ selection = NoSelection

\* the variables outside the registry
OutsideRegistry ==
    <<policyVars, workflowVars, alertVars, messagingVars, monitoringVars,
    runVars, batchVars, orchestration_tasks, active_tasks, completed_tasks,
    orchestration_metrics, finished,
    lifecycleVars>>

\* dict[key] = value
Assign(dict, key, value) ==
    [k \in DOMAIN dict \cup {key} |-> IF k = key THEN value ELSE dict[k]]

\* register_agent (lines 325-339): a key that is already there keeps its place
RegisterAgent ==
    \E agent_id \in RegistrableIds :
        /\ registered_agents' =
               IF \E i \in 1..Len(registered_agents) : registered_agents[i] = agent_id
               THEN registered_agents
               ELSE Append(registered_agents, agent_id)
        /\ agent_capabilities' =
               Assign(agent_capabilities, agent_id, CapabilitiesOf(agent_id))
        /\ agent_availability' = Assign(agent_availability, agent_id, TRUE)
        /\ agent_performance' =
               Assign(agent_performance, agent_id, RegisteredPerformance)
        /\ UNCHANGED <<selection, OutsideRegistry>>

\* dict.get(key, default)
Get(dict, key, default) == IF key \in DOMAIN dict THEN dict[key] ELSE default

\* the test of lines 760-763
IsSelected(agent_id, required_capabilities) ==
    /\ \E cap \in required_capabilities : cap \in agent_capabilities[agent_id]
    /\ Get(agent_availability, agent_id, FALSE)
    /\ IF agent_id \in DOMAIN agent_performance
       THEN agent_performance[agent_id].success_rate > 30
       ELSE FALSE

\* selected[:5] without the limit
WholeList(selected) == selected
\* selected[:5] (line 766)
FirstFive(selected) == SubSeq(selected, 1, Min(MaxSelected, Len(selected)))

\* _select_agents_by_capability (lines 754-766)
SelectAgentsByCapability(required_capabilities) ==
    LET Test(agent_id) == IsSelected(agent_id, required_capabilities)
    IN  FirstFive(SelectSeq(registered_agents, Test))

\* a call of _select_agents_by_capability
SelectAgentsByCapabilityCall ==
    \E required_capabilities \in Requirements :
        /\ selection' =
               [called |-> TRUE, required_capabilities |-> required_capabilities,
                result |-> SelectAgentsByCapability(required_capabilities)]
        /\ UNCHANGED <<registered_agents, agent_capabilities, agent_availability,
                       agent_performance, OutsideRegistry>>
----------------------------------------------------------------------------
(* LangChainBaseAgent: start, handle_message, think_and_act and shutdown   *)
(*                                                                         *)
(* The coroutines run on one event loop: between two awaits a coroutine    *)
(* runs alone.  start_pc is "test" before the test of the while loop,      *)
(* "waiting" in wait_for(message_queue.get()), "handling" in the await of  *)
(* think_and_act inside handle_message, and "ended" after the loop.        *)

MaxReceived == 2

LifecycleIdle ==
    /\ llm = FALSE
    /\ agent_status = "idle"
    /\ start_pc = "off"
    /\ inbox = 0
    /\ received = 0
    /\ shutdown_called = FALSE
    /\ direct = "none"

\* the variables outside the life cycle of the agent
OutsideLifecycle ==
    <<policyVars, workflowVars, alertVars, messagingVars, monitoringVars,
    orchestrationVars, runVars, batchVars, registryVars>>

\* the status think_and_act has at its await: ACTING in llm.ainvoke (line
\* 236), THINKING in the sleep of _mock_response (line 221)
StatusWhileThinking == IF llm THEN "acting" ELSE "thinking"

\* what the finally of think_and_act leaves (line 277), whether the body
\* returned or raised
StatusAfterThinking == "idle"

\* while self.status != AgentStatus.SHUTDOWN (line 314)
LoopTest ==
    /\ start_pc = "test"
    /\ start_pc' = IF agent_status # "shutdown" THEN "waiting" ELSE "ended"
    /\ UNCHANGED <<llm, agent_status, inbox, received, shutdown_called, direct,
                   OutsideLifecycle>>

\* wait_for raises TimeoutError after a second without a message; continue
WaitTimeout ==
    /\ start_pc = "waiting"
    /\ inbox = 0
    /\ start_pc' = "test"
    /\ UNCHANGED <<llm, agent_status, inbox, received, shutdown_called, direct,
                   OutsideLifecycle>>

\* message_queue.get() returns; handle_message calls think_and_act, which
\* runs to its await
GetMessage ==
    /\ start_pc = "waiting"
    /\ inbox > 0
    /\ inbox' = inbox - 1
    /\ agent_status' = StatusWhileThinking
    /\ start_pc' = "handling"
    /\ UNCHANGED <<llm, received, shutdown_called, direct, OutsideLifecycle>>

\* the await of think_and_act ends; the rest of think_and_act, of
\* handle_message and of the loop body (send_response, or the except
\* branches) leaves status alone
HandleReturns ==
    /\ start_pc = "handling"
    /\ agent_status' = StatusAfterThinking
    /\ start_pc' = "test"
    /\ UNCHANGED <<llm, inbox, received, shutdown_called, direct,
                   OutsideLifecycle>>

\* receive_message (lines 372-374)
ReceiveMessage ==
    /\ received < MaxReceived
    /\ received' = received + 1
    /\ inbox' = inbox + 1
    /\ UNCHANGED <<llm, agent_status, start_pc, shutdown_called, direct,
                   OutsideLifecycle>>

\* shutdown (lines 403-413); it is called once
Shutdown ==
    /\ ~shutdown_called
    /\ shutdown_called' = TRUE
    /\ agent_status' = "shutdown"
    /\ inbox' = 0
    /\ UNCHANGED <<llm, start_pc, received, direct, OutsideLifecycle>>

\* an orchestrator calls think_and_act on the agent itself, as its
\* strategies do; only a call begun before shutdown() is followed
DirectThinkAndAct ==
    /\ direct = "none"
    /\ ~shutdown_called
    /\ direct' = "awaiting"
    /\ agent_status' = StatusWhileThinking
    /\ UNCHANGED <<llm, start_pc, inbox, received, shutdown_called,
                   OutsideLifecycle>>

DirectReturns ==
    /\ direct = "awaiting"
    /\ direct' = "returned"
    /\ agent_status' = StatusAfterThinking
    /\ UNCHANGED <<llm, start_pc, inbox, received, shutdown_called,
                   OutsideLifecycle>>
----------------------------------------------------------------------------
(* Specifications *)

\* The approval policy: settings from the environment, then decisions.
PolicyInit ==
    /\ settings \in SettingsChoices
    /\ policy = PolicyIdle
    /\ agents = {}
    /\ use_fallback = FALSE
    /\ pc = "off"
    /\ state = NoState
    /\ supersteps = 0
    /\ executions = [n \in Nodes |-> 0]
    /\ route = "none"
    /\ last = NoLast
    /\ report = NoReport
    /\ AlertsIdle
    /\ MessagingIdle
    /\ MonitoringIdle
    /\ OrchestratorInit
    /\ RunsIdle
    /\ BatchIdle
    /\ RegistryIdle
    /\ LifecycleIdle

PolicyNext == PolicyCall /\ UNCHANGED <<workflowVars, serviceVars>>

PolicySpec == PolicyInit /\ [][PolicyNext]_vars

\* One run of execute_autonomous_goal on an orchestrator with some agents
\* registered, with or without LangGraph.
Init ==
    /\ settings = DefaultSettings
    /\ policy = PolicyIdle
    /\ agents \in SUBSET AgentIds
    /\ use_fallback \in BOOLEAN
    /\ pc = "idle"
    /\ state = NoState
    /\ supersteps = 0
    /\ executions = [n \in Nodes |-> 0]
    /\ route = "none"
    /\ last = NoLast
    /\ report = NoReport
    /\ AlertsIdle
    /\ MessagingIdle
    /\ MonitoringIdle
    /\ OrchestratorInit
    /\ RunsIdle
    /\ BatchIdle
    /\ RegistryIdle
    /\ LifecycleIdle

Next ==
    \/ ExecuteAutonomousGoal
    \/ InitializeWorkflowNode
    \/ DataCollectionNode
    \/ RouteAfterDataCollection
    \/ SentimentAnalysisNode
    \/ CrisisAssessmentNode
    \/ RouteAfterCrisisAssessment
    \/ ResponseGenerationNode
    \/ QualityAssessmentNode
    \/ ApprovalDecisionNode
    \/ RouteApprovalDecision
    \/ AutoPublishNode
    \/ HumanReviewNode
    \/ CrisisEscalationNode
    \/ FinalizeWorkflowNode
    \/ GraphRecursionError
    \/ ReturnReport

Spec == Init /\ [][Next]_vars

\* The event loop runs a node or router whenever one is due.
FairSpec == Spec /\ WF_vars(Next)

\* Runs in which a collaborator call may never return.
HangNext == Next \/ CollaboratorNeverReturns

HangSpec == Init /\ [][HangNext]_vars /\ WF_vars(HangNext)

\* the approval policy and the workflow graph are not running
GraphOff ==
    /\ settings = DefaultSettings
    /\ policy = PolicyIdle
    /\ agents = {}
    /\ use_fallback = FALSE
    /\ pc = "off"
    /\ state = NoState
    /\ supersteps = 0
    /\ executions = [n \in Nodes |-> 0]
    /\ route = "none"
    /\ last = NoLast
    /\ report = NoReport

\* A fresh AlertManagementAgent.
AlertInit == GraphOff /\ AlertsIdle /\ MessagingIdle /\ MonitoringIdle /\ OrchestratorInit /\ RunsIdle /\ BatchIdle /\ RegistryIdle /\ LifecycleIdle

\* The life cycle of alerts: tasks for some brands, acknowledgements and
\* resolutions.
AlertNext ==
    \/ ProcessTask
    \/ AcknowledgeAlert
    \/ ResolveAlert

AlertSpec == AlertInit /\ [][AlertNext]_vars

\* Tasks with batches of every kind.
RuleNext == EvaluateRules

RuleSpec == AlertInit /\ [][RuleNext]_vars

\* One brand on one platform, monitored over nine days.
WindowNext == MonitorBrand

WindowSpec == AlertInit /\ [][WindowNext]_vars

\* One call of _process_alerts on a list of alerts.
SortNext == ProcessAlertsCall

SortSpec == AlertInit /\ [][SortNext]_vars

\* Workers whose inboxes are empty, one short of full or full; some have
\* stopped consuming, some raise from receive_message.
InboxesInit ==
    /\ message_queue \in
           [Workers -> {[size |-> n, got |-> <<>>] :
                           n \in {0, QueueCapacity - 1, QueueCapacity}}]
    /\ stalled \in SUBSET Workers
    /\ raising \in SUBSET Workers
    /\ consumed = 0
    /\ par = NoParallel
    /\ system_metrics = [total_messages_routed |-> 0, system_errors |-> 0]
    /\ callers = [path \in {"router", "direct"} |-> IdleCaller]

RouterFresh ==
    /\ message_router = [older |-> 0, msgs |-> <<>>]
    /\ router = [state |-> "waiting", message |-> NoMessage]

\* The router waits for room in the full inbox of w1 while the messages
\* for w1 have filled the router queue.
RouterJammed ==
    /\ Full(message_queue["w1"])
    /\ "w1" \notin raising
    /\ message_router = [older |-> RouterCapacity, msgs |-> <<>>]
    /\ router = [state |-> "suspended", message |-> OlderMessage]

\* One call of _execute_parallel while the workers consume.
ParallelInit == GraphOff /\ AlertsIdle /\ MonitoringIdle /\ OrchestratorInit /\ RunsIdle /\ BatchIdle /\ RegistryIdle /\ LifecycleIdle /\ InboxesInit /\ RouterFresh

ParallelNext ==
    \/ ExecuteParallel
    \/ SendToAgent
    \/ ResumeSendToAgent
    \/ GatherReturn
    \/ Consume

ParallelSpec == ParallelInit /\ [][ParallelNext]_vars

\* Messages sent through the router of AgentOrchestrator and through
\* route_message of LangChainOrchestrator while the workers consume.
RouterInit ==
    GraphOff /\ AlertsIdle /\ MonitoringIdle /\ OrchestratorInit /\ RunsIdle /\ BatchIdle /\ RegistryIdle /\ LifecycleIdle /\ InboxesInit /\ (RouterFresh \/ RouterJammed)

RouterNext ==
    \/ RouteMessage
    \/ ResumeRouteMessage
    \/ RouteMessages
    \/ ResumeDeliverMessage
    \/ RouteDirect
    \/ ResumeRouteDirect
    \/ Consume

RouterSpec == RouterInit /\ [][RouterNext]_vars

\* A fresh DataCollectionAgent that receives start_monitoring and
\* stop_monitoring messages while its monitoring loops run.
MonitoringInit == GraphOff /\ AlertsIdle /\ MessagingIdle /\ MonitoringIdle /\ OrchestratorInit /\ RunsIdle /\ BatchIdle /\ RegistryIdle /\ LifecycleIdle

MonitoringNext ==
    \/ StartContinuousMonitoring
    \/ StopContinuousMonitoring
    \/ MonitoringLoop

MonitoringSpec == MonitoringInit /\ [][MonitoringNext]_vars

\* Calls of orchestrate_task_strategically, also concurrent ones.
OrchestrationInit ==
    GraphOff /\ AlertsIdle /\ MessagingIdle /\ MonitoringIdle /\ OrchestratorInit /\ RunsIdle /\ BatchIdle /\ RegistryIdle /\ LifecycleIdle

OrchestrationNext ==
    \/ OrchestrateTaskStrategically
    \/ PlanningReturned

OrchestrationSpec == OrchestrationInit /\ [][OrchestrationNext]_vars

\* Two calls of execute_autonomous_goal, one after the other or
\* interleaved at their awaits, by a caller that keeps one context dict.
RunsInit ==
    /\ GraphOff /\ AlertsIdle /\ MessagingIdle /\ MonitoringIdle /\ OrchestratorInit
    /\ RunsIdle
    /\ BatchIdle
    /\ RegistryIdle
    /\ LifecycleIdle

RunsNext ==
    \/ Tick
    \/ StartRun
    \/ RunInitializeWorkflow
    \/ RunDataCollection
    \/ RunRouteAfterDataCollection

RunsSpec == RunsInit /\ [][RunsNext]_vars

BatchInit ==
    /\ GraphOff /\ AlertsIdle /\ MessagingIdle /\ MonitoringIdle /\ OrchestratorInit
    /\ RunsIdle /\ BatchIdle /\ RegistryIdle /\ LifecycleIdle
BatchNext ==
    \/ BatchGenerateResponses
    \/ GenerateSingleResponse
    \/ SingleResponseEnds
    \/ BatchReturns
BatchSpec == BatchInit /\ [][BatchNext]_vars


\* One direct call of a rule that keeps no window.
RuleCallNext ==
    \/ CheckNegativeSentimentSpikeCall
    \/ CheckCrisisKeywordsCall

RuleCallSpec == AlertInit /\ [][RuleCallNext]_vars


\* Two (brand, platform) pairs under the volume rule alone.
VolumeNext ==
    \/ CheckVolumeSpikeCall
    \/ CheckOtherVolumeCall

VolumeSpec == AlertInit /\ [][VolumeNext]_vars


\* One brand and platform under the deterioration rule alone.
TrendNext == CheckSentimentDeteriorationCall

TrendSpec == AlertInit /\ [][TrendNext]_vars


\* An orchestrator that registers agents and selects among them.
RegistryInit ==
    /\ GraphOff /\ AlertsIdle /\ MessagingIdle /\ MonitoringIdle
    /\ RunsIdle /\ BatchIdle /\ RegistryIdle /\ LifecycleIdle
    /\ orchestration_tasks = <<>>
    /\ active_tasks = {}
    /\ completed_tasks = <<>>
    /\ orchestration_metrics = NoMetrics
    /\ agent_performance = <<>>
    /\ finished = <<>>
RegistryNext ==
    \/ RegisterAgent
    \/ SelectAgentsByCapabilityCall
RegistrySpec == RegistryInit /\ [][RegistryNext]_vars

\* The approval policy under the settings of the file, with texts that hit
\* many of the lists.
DefaultPolicyInit ==
    /\ GraphOff /\ AlertsIdle /\ MessagingIdle /\ MonitoringIdle /\ OrchestratorInit
    /\ RunsIdle /\ BatchIdle /\ RegistryIdle /\ LifecycleIdle

DefaultPolicyNext == WidePolicyCall /\ UNCHANGED <<workflowVars, serviceVars>>

DefaultPolicySpec == DefaultPolicyInit /\ [][DefaultPolicyNext]_vars


\* One agent whose start() has initialised it and reached the loop.
LifecycleInit ==
    /\ GraphOff /\ AlertsIdle /\ MessagingIdle /\ MonitoringIdle /\ OrchestratorInit
    /\ RunsIdle /\ BatchIdle /\ RegistryIdle
    /\ llm \in BOOLEAN
    /\ agent_status = "idle"
    /\ start_pc = "test"
    /\ inbox = 0
    /\ received = 0
    /\ shutdown_called = FALSE
    /\ direct = "none"
LifecycleNext ==
    \/ LoopTest
    \/ WaitTimeout
    \/ GetMessage
    \/ HandleReturns
    \/ ReceiveMessage
    \/ Shutdown
    \/ DirectThinkAndAct
    \/ DirectReturns
\* The event loop resumes a coroutine that can go on, and every await of
\* think_and_act ends.
LifecycleSpec ==
    /\ LifecycleInit /\ [][LifecycleNext]_vars
    /\ WF_vars(LoopTest) /\ WF_vars(WaitTimeout) /\ WF_vars(GetMessage)
    /\ WF_vars(HandleReturns) /\ WF_vars(DirectReturns)


----------------------------------------------------------------------------
(* Approval policy: properties (PolicySpec) *)

\* the call under inspection
Called == policy.called

ComputedRisk == CalculateComprehensiveRiskScore(policy.input, policy.fault)

StepRaised == DecisionBody(policy.input, settings, policy.fault).raised

Returned == policy.result.decision

InLowBand == Returned.approval_status = "approved_auto"

InMediumBand == Returned.confidence = "medium"

InHighBand == Returned.confidence = "high" /\ Returned.approval_status = "pending_approval"

\* C1: whenever an internal step of _make_autonomous_approval_decision raises
\* (risk score, content risk, contextual decision, reviewer suggestion or
\* review alert), the call returns - nothing escapes - a decision that is
\* pending_approval, requires human review and has confidence low.
C1_FailClosed ==
    (Called /\ StepRaised) =>
        /\ ~policy.result.raised
        /\ Returned.approval_status = "pending_approval"
        /\ Returned.requires_human_review
        /\ Returned.confidence = "low"
        /\ Returned.approval_status \notin {"approved_auto", "approved_contextual"}

\* every one of the five steps has raised in some call
C1_Witness ==
    /\ Called
    /\ StepRaised
    /\ policy.fault = "review_alert"
    /\ Returned.confidence = "low"

\* C2: whenever the computed overall_risk_score is above
\* HUMAN_REVIEW_RISK_THRESHOLD, the returned decision is pending_approval and
\* requires human review.
C2_HighRiskPending ==
    (Called /\ ~ComputedRisk.raised
        /\ ComputedRisk.overall_risk_score > settings.HUMAN_REVIEW_RISK_THRESHOLD) =>
        /\ Returned.approval_status = "pending_approval"
        /\ Returned.requires_human_review

\* C3 as stated: without an exception, a score below
\* AUTO_RESPONSE_RISK_THRESHOLD is approved_auto without review, and a score
\* equal to either threshold is decided by the medium band.
C3_Original ==
    (Called /\ ~StepRaised) =>
        LET risk == ComputedRisk.overall_risk_score
        IN  /\ risk < settings.AUTO_RESPONSE_RISK_THRESHOLD =>
                  Returned.approval_status = "approved_auto"
                  /\ ~Returned.requires_human_review
            /\ risk \in {settings.AUTO_RESPONSE_RISK_THRESHOLD,
                         settings.HUMAN_REVIEW_RISK_THRESHOLD} => InMediumBand

\* C3 as amended: without an exception, a score below
\* AUTO_RESPONSE_RISK_THRESHOLD is approved_auto without review; a score equal
\* to AUTO_RESPONSE_RISK_THRESHOLD is not taken by the low band and a score
\* equal to HUMAN_REVIEW_RISK_THRESHOLD is not taken by the high band; when
\* the thresholds are in order (auto <= review) both are decided by the
\* medium band.
C3_StrictBands ==
    (Called /\ ~StepRaised) =>
        LET risk == ComputedRisk.overall_risk_score
            auto == settings.AUTO_RESPONSE_RISK_THRESHOLD
            review == settings.HUMAN_REVIEW_RISK_THRESHOLD
        IN  /\ risk < auto =>
                  Returned.approval_status = "approved_auto"
                  /\ ~Returned.requires_human_review
            /\ risk = auto => ~InLowBand
            /\ risk = review => ~InHighBand
            /\ (auto <= review /\ risk \in {auto, review}) => InMediumBand

\* a score exactly on the auto-approve threshold, decided by the medium band
C3_Witness ==
    /\ Called
    /\ ~StepRaised
    /\ ComputedRisk.overall_risk_score = settings.AUTO_RESPONSE_RISK_THRESHOLD
    /\ InMediumBand

\* the five entries of component_risks, added up
ComponentSum(risk_analysis) ==
    LET c == risk_analysis.component_risks
    IN  c.quality_risk + c.sentiment_risk + c.virality_risk
        + c.content_risk + c.crisis_risk

\* C12: for every input for which _calculate_comprehensive_risk_score returns,
\* overall_risk_score lies in [0,1] and equals the sum of the five entries of
\* component_risks clamped to [0,1].
C12_RiskIsClampedSum ==
    (Called /\ ~ComputedRisk.raised) =>
        /\ ComputedRisk.overall_risk_score >= 0
        /\ ComputedRisk.overall_risk_score <= Scale
        /\ ComputedRisk.overall_risk_score =
               (IF ComponentSum(ComputedRisk) < 0 THEN 0
                ELSE IF ComponentSum(ComputedRisk) > Scale THEN Scale
                ELSE ComponentSum(ComputedRisk))

\* a call in which every component is at its highest: no quality at all, a
\* negative and visible mention in a crisis, a risky topic in a short response
C12_Witness ==
    /\ Called
    /\ ~ComputedRisk.raised
    /\ ComputedRisk.component_risks.quality_risk = 3 * (Scale \div 10)
    /\ policy.input.sentiment = "negative"
    /\ policy.input.high_engagement
    /\ policy.input.crisis_detected
    /\ ComputedRisk.component_risks.content_risk > 0
    /\ ComputedRisk.overall_risk_score > Scale \div 2 - Scale \div 10

----------------------------------------------------------------------------
(* Workflow graph: properties (Spec, FairSpec) *)

Range(seq) == {seq[i] : i \in 1..Len(seq)}

Ended == pc \in {"END", "done"} /\ report.kind \in {"none", "workflow"}

\* C4: in a run that reached finalize_workflow after approval_decision, every
\* generated response whose decision requires human review is in
\* final_results.pending_human_review, also when other responses of the run
\* were auto-approved.
C4_ReviewNeverDropped ==
    (Ended /\ executions["approval_decision"] > 0
           /\ executions["finalize_workflow"] > 0) =>
        \A r \in Range(state.generated_responses) :
            NeedsHumanReview(r) =>
                /\ state.final_results.has_pending
                /\ r \in Range(state.final_results.pending_human_review)

\* C5: when collect_data is recorded as failed and data_collection_retries is
\* already 2, _route_after_data_collection returns abort (the run goes to
\* END) and not retry_collection; the counter never exceeds 2 and
\* collect_data is executed at most 3 times in a run.
C5_RetryCap ==
    /\ [](pc \notin {"idle", "off"} /\ report.kind # "fallback" =>
            /\ state.context.data_collection_retries <= 2
            /\ executions["collect_data"] <= 3)
    /\ [][(pc = "route_after_data_collection"
             /\ Contains(state.failed_steps, "collect_data")
             /\ state.context.data_collection_retries >= 2)
          => (route' = "abort" /\ pc' = "END")]_vars

\* the third execution of collect_data failed and the run was aborted
C5_Witness ==
    /\ pc = "END"
    /\ route = "abort"
    /\ executions["collect_data"] = 3
    /\ state.context.data_collection_retries = 2
    /\ Contains(state.failed_steps, "collect_data")

\* C6: after an execution of collect_data that succeeded, the run goes on to
\* analyze_sentiment when at least one mention was collected and is aborted
\* when none was, whether or not an earlier attempt of the run failed.
C6_SuccessProceeds ==
    [][(pc = "route_after_data_collection"
          /\ last.node = "collect_data" /\ last.outcome = "completed"
          /\ state.collected_data.is_dict)
       => IF Len(state.collected_data.mentions) > 0
          THEN pc' = "analyze_sentiment"
          ELSE pc' = "END"]_vars

\* C7: every run reaches END after finitely many node executions; in
\* particular a run that has started generating responses reaches END (the
\* regenerate cycle is not taken for ever).
C7_ReachesEnd == (pc = "generate_responses") ~> (pc = "END")

\* C8: no node and no routing function lets an exception leave the graph: an
\* exception is recorded in failed_steps inside the node, and the routing
\* function evaluated afterwards returns a decision.
C8_NothingEscapes ==
    /\ report.kind = "error" => route \notin Routers
    /\ (last.outcome = "failed" /\ pc \notin {"idle", "off"} /\ report.kind # "fallback")
           => Contains(state.failed_steps, last.node)

\* C9: whatever path execute_autonomous_goal takes, the report it returns
\* has the keys success, completed_steps, failed_steps and recommendations.
C9_StructuredReport ==
    pc = "done" =>
        {"success", "completed_steps", "failed_steps", "recommendations"}
            \subseteq report.keys

\* C10: one execution of a node appends the name of the node exactly once,
\* either to completed_steps or to failed_steps.
C10_NodeRecordsItself ==
    [][supersteps' = supersteps + 1 =>
          \/ /\ state'.completed_steps = Append(state.completed_steps, pc)
             /\ state'.failed_steps = state.failed_steps
          \/ /\ state'.failed_steps = Append(state.failed_steps, pc)
             /\ state'.completed_steps = state.completed_steps]_vars

\* C11: in every state after approval_decision has run, also after regenerate
\* loops, approval_decisions has the same length as generated_responses and
\* approval_decisions[i] is the decision of generated_responses[i].
C11_DecisionsAligned ==
    (executions["approval_decision"] > 0
       /\ last.node \notin {"generate_responses", "quality_assessment"}) =>
        /\ Len(state.approval_decisions) = Len(state.generated_responses)
        /\ \A i \in 1..Len(state.generated_responses) :
               state.approval_decisions[i] =
                   ApprovalDecisionOf(state.generated_responses[i])

----------------------------------------------------------------------------
(* Alert management agent: properties (RuleSpec, SortSpec, WindowSpec,     *)
(* AlertSpec)                                                              *)

TaskDone == task.op = "process_task"

\* C13: when one of the four rules raises during process_task, the other
\* rules are still evaluated, the alerts of the rules that did not raise are
\* returned, and the error does not leave process_task.
C13_RulesIsolated ==
    (TaskDone /\ task.raised_in # "none") =>
        /\ task.evaluated = Range(RuleNames)
        /\ task.outcome = "success"
        /\ \A i \in 1..Len(task.found) :
               \E j \in 1..Len(task.alerts) : task.alerts[j].type = task.found[i].type

\* what _process_alerts leaves of an alert as it was
Untagged(alert) ==
    [type |-> alert.type, severity |-> alert.severity, timestamp |-> alert.timestamp]

Occurrences(alerts, x) == Cardinality({i \in 1..Len(alerts) : Untagged(alerts[i]) = x})

\* C14: the list _process_alerts returns is a permutation of its input,
\* ordered by severity descending (critical > high > medium > low) and, among
\* equal severities, by timestamp descending; a lower severity never comes
\* before a higher one, whatever the timestamps and the input order.
C14_SortedBySeverity ==
    sorting.called =>
        /\ Len(sorting.output) = Len(sorting.input)
        /\ \A i \in 1..Len(sorting.input) :
               Occurrences(sorting.output, Untagged(sorting.input[i]))
                   = Occurrences(sorting.input, Untagged(sorting.input[i]))
        /\ \A i, j \in 1..Len(sorting.output) :
               i < j =>
                   LET a == sorting.output[i]
                       b == sorting.output[j]
                   IN  /\ SeverityOrder(a.severity) >= SeverityOrder(b.severity)
                       /\ a.severity = b.severity => a.timestamp >= b.timestamp

\* a newer low alert in front of an older critical one, and a medium one
C14_Witness ==
    /\ sorting.called
    /\ Len(sorting.input) = 3
    /\ sorting.input[1].severity = "low" /\ sorting.input[1].timestamp = 1
    /\ sorting.input[2].severity = "critical" /\ sorting.input[2].timestamp = 0
    /\ sorting.input[3].severity = "medium"
    /\ sorting.output[1].severity = "critical"
    /\ sorting.output[3].severity = "low"

\* every entry is younger than age hours
YoungerThan(window, age) ==
    \A i \in 1..Len(window) : now - window[i].timestamp < age

\* C15: after a call of _check_volume_spike every entry of the window of its
\* (brand, platform) key is younger than 7 days; after a call of
\* _check_sentiment_deterioration with a non-empty batch every entry of the
\* sentiment window is younger than 24 hours; and a mean is only computed
\* from a window that was pruned.
C15_WindowsPruned ==
    (TaskDone /\ task.raised_in = "none") =>
        /\ YoungerThan(historical_data[task.brand_id \o task.platform], VolumeWindow)
        /\ task.analyzed_data # <<>> =>
               YoungerThan(historical_data[task.brand_id \o task.platform
                                           \o <<"sentiment">>],
                           SentimentWindow)
        /\ YoungerThan(task.volume_averaged, VolumeWindow)
        /\ YoungerThan(task.sentiment_averaged, SentimentWindow)

\* both means were computed in a call that had older samples to drop
C15_Witness ==
    /\ TaskDone
    /\ Len(task.volume_averaged) >= MinVolumeSamples
    /\ Len(task.sentiment_averaged) >= MinSentimentSamples - 1
    /\ calls > Len(task.volume_averaged)
    /\ calls > Len(task.sentiment_averaged) + 1

\* the alert is active
IsActive(core) ==
    \E id \in DOMAIN active_alerts : Core(active_alerts[id]) = core

\* the alert is in the history of its brand, with who resolved it and when
IsArchived(core) ==
    /\ core.brand_id \in DOMAIN alert_history
    /\ \E i \in 1..Len(alert_history[core.brand_id]) :
          LET alert == alert_history[core.brand_id][i]
          IN  /\ Core(alert) = core
              /\ alert.resolved
              /\ alert.resolved_by \in Operators
              /\ alert.resolved_at >= 0

\* C16: whatever process_task, acknowledge_alert and resolve_alert calls are
\* made, an alert leaves active_alerts only through resolve_alert, which
\* appends it to the history of its brand: every alert that was ever stored
\* in active_alerts is still there or is in alert_history.
C16_AlertsNeverLost ==
    \A core \in ever_active : IsActive(core) \/ IsArchived(core)

----------------------------------------------------------------------------
(* Message passing: properties (ParallelSpec, RouterSpec) *)

\* C17: when _execute_parallel has returned, every dispatch has finished,
\* every registered worker of the id list that does not raise has received
\* the message, and agent_results holds, under the id of every registered
\* worker of the list, the result that this worker produced: an error entry
\* for a worker that raises, a success entry for every other worker.
C17_ResultsAttributed ==
    par.phase = "returned" =>
        /\ \A i \in 1..Len(par.tasks) : par.tasks[i].state \in {"completed", "raised"}
        /\ \A i \in 1..Len(par.agent_ids) :
            LET w == par.agent_ids[i] IN
            w \in Workers =>
                /\ w \notin raising =>
                       \E k \in 1..Len(message_queue[w].got) :
                           message_queue[w].got[k].via = "parallel"
                /\ w \in DOMAIN par.agent_results
                /\ par.agent_results[w].by = w
                /\ par.agent_results[w].kind =
                       IF w \in raising THEN "error" ELSE "success"

\* C18: no step suspends a sender: after a send to a full inbox or to a full
\* router queue the caller of route_message and the router loop go on.
C18_SendersNeverSuspended ==
    [][/\ router.state # "suspended" => router'.state # "suspended"
       /\ \A path \in DOMAIN callers :
              callers[path].state # "suspended" => callers'[path].state # "suspended"]_vars

\* C19: when the router takes a message whose receiver is not registered,
\* no inbox changes, system_errors grows by one and the router goes on
\* with the next message.
C19_UnknownReceiverCounted ==
    [][(/\ router.state = "waiting"
        /\ RouterSize > 0
        /\ NextRouted.receiver \notin Workers
        /\ message_router' = AfterGet)
       => /\ message_queue' = message_queue
          /\ system_metrics'.system_errors = system_metrics.system_errors + 1
          /\ router'.state = "waiting"]_vars

----------------------------------------------------------------------------
(* Continuous monitoring: properties (MonitoringSpec) *)

\* the loops of a brand that nobody has cancelled and that have not ended
Running(brand_id) ==
    {i \in 1..Len(loops) :
        /\ loops[i].brand_id = brand_id
        /\ ~loops[i].cancel_requested
        /\ loops[i].at # "done"}

\* the step handled a stop_monitoring for a monitored brand
Stops(brand_id) ==
    /\ monitor_call'.n # monitor_call.n
    /\ monitor_call'.op = "stop"
    /\ monitor_call'.brand_id = brand_id
    /\ brand_id \in DOMAIN active_monitoring

\* C20: a monitored brand has exactly one running loop, the one of its
\* entry, and a brand that is not monitored has none, so a second start
\* creates no second loop; a stop for brand B cancels the task of B's
\* entry, removes that entry and leaves every other entry and every other
\* loop as it was; a loop that was stopped collects nothing any more.
C20_MonitoringRegistry ==
    /\ [](\A b \in MonitoredBrands :
            Running(b) = IF b \in DOMAIN active_monitoring
                         THEN {active_monitoring[b].task} ELSE {})
    /\ [][\A b \in MonitoredBrands :
            Stops(b) =>
                /\ loops'[active_monitoring[b].task].cancel_requested
                /\ active_monitoring' = WithoutEntry(active_monitoring, b)
                /\ Len(loops') = Len(loops)
                /\ \A i \in 1..Len(loops) :
                       i # active_monitoring[b].task => loops'[i] = loops[i]]_vars
    /\ [][\A i \in 1..Len(loops) :
            loops[i].stopped => loops'[i].collected = loops[i].collected]_vars

\* A loop that had collected was stopped and has ended, the loop of the
\* other brand has collected since and is still running, and the last
\* message was a start for a brand that is already monitored.
C20_Witness ==
    /\ monitor_call.op = "start_again"
    /\ \E i, j \in 1..Len(loops) :
        /\ loops[i].stopped /\ loops[i].at = "done" /\ loops[i].collected > 0
        /\ loops[j].brand_id # loops[i].brand_id
        /\ j \in Running(loops[j].brand_id)
        /\ loops[j].collected = MaxCollections

----------------------------------------------------------------------------
(* Workflow graph: collaborator calls (HangSpec) *)

\* C21: a node whose collaborator call does not return stops waiting after
\* a bounded time: the node is then in failed_steps and the graph has gone
\* on to the routing that follows the node.
C21_BoundedWait ==
    (pc = "awaiting") ~>
        (/\ pc # "awaiting"
         /\ last.node \in DOMAIN AgentOf
         /\ Contains(state.failed_steps, last.node))

----------------------------------------------------------------------------
(* Orchestration tasks: properties (OrchestrationSpec) *)

\* the life cycles a status may have gone through so far
Lifecycles ==
    {<<"pending">>, <<"pending", "executing">>,
     <<"pending", "executing", "completed">>,
     <<"pending", "executing", "failed">>}

\* C22: the status of every task has only moved pending -> executing ->
\* completed or failed, and a task whose planning succeeded and whose
\* strategy execution raised nothing has ended completed and is in
\* completed_tasks.
C22_LinearLifecycle ==
    \A i \in 1..Len(orchestration_tasks) :
        LET t == orchestration_tasks[i] IN
        /\ t.history \in Lifecycles
        /\ (t.at = "returned" /\ t.planned /\ ~t.strategy_raised) =>
               /\ t.status = "completed"
               /\ Contains(completed_tasks, i)

\* the sum of the durations of the tasks that finished
RECURSIVE TotalDuration(_)
TotalDuration(samples) ==
    IF samples = <<>> THEN 0
    ELSE Head(samples).duration + TotalDuration(Tail(samples))

\* C25: once tasks have finished, avg_completion_time is the average of
\* their durations, the metrics hold a success rate that is the share of
\* successful tasks among them, and the entry of every worker counts the
\* finished tasks it executed.
C25_RunningAverages ==
    LET n == Len(finished)
        IsSuccess(sample) == sample.success
    IN  n > 0 =>
        /\ orchestration_metrics.total_tasks = n
        /\ orchestration_metrics.avg_completion_time.num * n
               = TotalDuration(finished) * orchestration_metrics.avg_completion_time.den
        /\ orchestration_metrics.has_success_rate
        /\ \A w \in Workers :
               agent_performance[w].tasks_completed =
                   Cardinality({k \in 1..n :
                       w \in orchestration_tasks[finished[k].task].executed_by})

----------------------------------------------------------------------------
(* Several runs: properties (RunsSpec) *)

\* C23: a run that has not executed a node yet has empty step lists, and
\* what a run finds in its context is what the run itself has written: the
\* retry counter is the number of retries the run has taken (0 at its
\* start) and crisis_mode is set only if its own goal mentions a crisis.
C23_RunsShareNothing ==
    \A i \in 1..Len(runs) :
        /\ runs[i].at = "initialize_workflow" =>
               runs[i].completed_steps = <<>> /\ runs[i].failed_steps = <<>>
        /\ contexts[runs[i].context].data_collection_retries = runs[i].retried
        /\ contexts[runs[i].context].crisis_mode => runs[i].goal_mentions_crisis

\* C24: any two runs have different workflow_id values.
C24_WorkflowIdsUnique ==
    \A i, j \in 1..Len(runs) : i # j => runs[i].workflow_id # runs[j].workflow_id

----------------------------------------------------------------------------
(* batch_generate_responses: properties (BatchSpec) *)

Raises(mention) == mention.outcome = "raises"
Survives(mention) == ~Raises(mention)
\* what a batch of these mentions returns
ResultsOfBatch(mentions) ==
    ProcessResults(mentions,
                   [i \in 1..Len(mentions) |-> GenerateIntelligentResponse(mentions[i])])

----------------------------------------------------------------------------
(* Workflow graph: the routes after approval and after the crisis          *)
(* assessment (Spec)                                                       *)

\* quality_scores.average in tenths, as a fraction; 0 when the key is absent
AverageBelow(quality_scores, tenths) ==
    IF quality_scores.has_average
    THEN quality_scores.total < tenths * quality_scores.count
    ELSE 0 < tenths
AnyDecision(decisions, Test(_)) == \E i \in 1..Len(decisions) : Test(decisions[i])

\* C27: _route_approval_decision returns regenerate when the average quality
\* is below 0.5; otherwise auto_approve when some decision is approved_auto;
\* otherwise human_review when some decision requires human review; otherwise
\* auto_approve, and the graph follows the returned label.
C27_ApprovalRouting ==
    [][pc = "route_approval_decision" /\ pc' \in Nodes =>
         LET below == AverageBelow(state.quality_scores, 5)
             auto == AnyDecision(state.approval_decisions, IsAutoApproved)
             review == AnyDecision(state.approval_decisions, RequiresHumanReview)
         IN  /\ below => route' = "regenerate" /\ pc' = "generate_responses"
             /\ ~below /\ auto => route' = "auto_approve" /\ pc' = "auto_publish"
             /\ ~below /\ ~auto /\ review =>
                    route' = "human_review" /\ pc' = "human_review"
             /\ ~below /\ ~auto /\ ~review =>
                    route' = "auto_approve" /\ pc' = "auto_publish"
             /\ (auto <=> state.performance_metrics.auto_approved > 0)
             /\ (review <=> state.performance_metrics.requires_review > 0)]_vars
\* the route to human review was taken with an average of exactly 0.5 or more
C27_Witness ==
    /\ pc = "human_review"
    /\ route = "human_review"
    /\ ~AverageBelow(state.quality_scores, 5)
    /\ AnyDecision(state.approval_decisions, RequiresHumanReview)
    /\ ~AnyDecision(state.approval_decisions, IsAutoApproved)

\* 0.4*negativeRatio + 0.4*min(1, keywords/5) + 0.2*min(1, loud/3) > 0.8,
\* on the counts of the sentiment summary (all terms 0 without a summary)
SevereCrisis(summary) ==
    /\ summary.has_summary
    /\ summary.total > 0
    /\ 600 * summary.negative
         + summary.total * (120 * Min(summary.crisis_keywords, 5)
                            + 100 * Min(summary.high_engagement_negative, 3))
       > 1200 * summary.total
SevereActions ==
    {"notify_ceo_immediately", "activate_crisis_team", "prepare_press_statement",
     "monitor_social_sentiment_hourly"}

\* C28: after assess_crisis the graph goes to crisis_escalation iff the crisis
\* score is above 0.8; otherwise to generate_responses iff some collected
\* mention asks for help or is negative; otherwise to finalize_workflow.  The
\* escalation node then records the four severe actions.
C28_CrisisRouting ==
    /\ [][pc = "route_after_crisis_assessment" /\ pc' # pc =>
            LET severe == SevereCrisis(state.sentiment_analysis)
                needed == /\ state.collected_data.is_dict
                          /\ \E i \in 1..Len(state.collected_data.mentions) :
                                NeedsResponse(state.collected_data.mentions[i])
            IN  /\ pc' \in {"crisis_escalation", "generate_responses",
                            "finalize_workflow"}
                /\ pc' = "crisis_escalation" <=> severe
                /\ pc' = "generate_responses" <=> ~severe /\ needed]_vars
    /\ [][pc = "crisis_escalation" /\ pc' # pc /\ route = "escalate_crisis" =>
            /\ pc' = "finalize_workflow"
            /\ state'.final_results.has_escalation
            /\ state'.final_results.escalation_actions = SevereActions]_vars
\* the escalation node has run after a severe assessment
C28_Witness ==
    /\ pc = "finalize_workflow"
    /\ last.node = "crisis_escalation"
    /\ route = "escalate_crisis"
    /\ SevereCrisis(state.sentiment_analysis)
    /\ state.final_results.escalation_actions = SevereActions

\* the bias of the auto-approve threshold in 1/10000: platform, time, crisis
ClaimedBias(in) ==
    (IF in.platform = "twitter" THEN 1000
     ELSE IF in.platform = "linkedin" THEN -1000 ELSE 0)
    + (IF in.business_hours THEN -500 ELSE 1000)
    + (IF in.crisis_mode THEN -2000 ELSE 0)

\* C29: for a risk score in the medium band (auto threshold <= risk <= review
\* threshold) the decision is approved_contextual without human review iff
\* risk < auto threshold + bias, and pending_approval with human review
\* otherwise; the bias is +0.1 on twitter, -0.1 on linkedin, -0.05 in business
\* hours, +0.1 outside them and -0.2 in crisis mode.
C29_ContextualDecision ==
    LET risk == ComputedRisk.overall_risk_score
        auto == settings.AUTO_RESPONSE_RISK_THRESHOLD
        review == settings.HUMAN_REVIEW_RISK_THRESHOLD
    IN  (Called /\ ~StepRaised /\ auto <= risk /\ risk <= review) =>
            IF risk < auto + ClaimedBias(policy.input)
            THEN /\ Returned.approval_status = "approved_contextual"
                 /\ ~Returned.requires_human_review
            ELSE /\ Returned.approval_status = "pending_approval"
                 /\ Returned.requires_human_review
\* a medium score below the adjusted threshold, approved in context
C29_Witness ==
    /\ Called
    /\ ~StepRaised
    /\ settings.AUTO_RESPONSE_RISK_THRESHOLD <= ComputedRisk.overall_risk_score
    /\ ComputedRisk.overall_risk_score <= settings.HUMAN_REVIEW_RISK_THRESHOLD
    /\ ComputedRisk.overall_risk_score
         < settings.AUTO_RESPONSE_RISK_THRESHOLD + ClaimedBias(policy.input)
    /\ policy.input.platform = "twitter"
    /\ Returned.approval_status = "approved_contextual"

IsApproval(d) ==
    /\ d.approval_status \in {"approved_auto", "approved_contextual"}
    /\ ~d.requires_human_review

\* C30: when the workflow finalizes after auto_publish, every generated
\* response whose decision is an approval (approved_auto or
\* approved_contextual, without human review) is in
\* final_results.auto_published_responses; no approved response ends the run
\* neither published nor queued for review.
C30_ApprovedIsPublished ==
    (Ended /\ executions["approval_decision"] > 0
           /\ executions["finalize_workflow"] > 0) =>
        \A r \in Range(state.generated_responses) :
            IsApproval(ApprovalDecisionOf(r)) =>
                /\ executions["auto_publish"] > 0 =>
                       r \in Range(state.final_results.auto_published_responses)
                /\ \/ r \in Range(state.final_results.auto_published_responses)
                   \/ r \in Range(state.final_results.pending_human_review)

----------------------------------------------------------------------------
(* Alert management agent: properties of the single rules (RuleCallSpec,   *)
(* VolumeSpec, TrendSpec)                                                  *)

\* the items the negative-sentiment rule counts
Qualifying(data) ==
    {i \in 1..Len(data) : /\ data[i].overall = "negative"
                          /\ data[i].confidence > NEGATIVE_SENTIMENT_THRESHOLD}
RECURSIVE ConfidenceSum(_, _)
ConfidenceSum(data, S) ==
    IF S = {} THEN 0
    ELSE LET i == CHOOSE i \in S : TRUE
         IN  data[i].confidence + ConfidenceSum(data, S \ {i})

\* C31: the negative-sentiment rule emits exactly one alert iff the number
\* of items with sentiment negative and confidence strictly above the
\* threshold is at least the volume threshold, and none otherwise; the
\* severity is critical if the mean confidence of those items is above 0.8
\* and high otherwise.
C31_NegativeSpike ==
    task.op = "check_negative_sentiment_spike" =>
        LET q == Qualifying(task.analyzed_data)
            n == Cardinality(q)
        IN  /\ n >= CRISIS_MENTION_THRESHOLD => Len(task.alerts) = 1
            /\ n < CRISIS_MENTION_THRESHOLD => task.alerts = <<>>
            /\ \A i \in 1..Len(task.alerts) :
                  /\ task.alerts[i].type = <<"negative", "sentiment", "spike">>
                  /\ task.alerts[i].count = n
                  /\ task.alerts[i].severity =
                         IF ConfidenceSum(task.analyzed_data, q) > 80 * n
                         THEN "critical" ELSE "high"
\* ten qualifying items with a mean confidence of 0.85, next to an item on
\* the threshold, give one critical alert
C31_Witness ==
    /\ task.op = "check_negative_sentiment_spike"
    /\ Len(task.analyzed_data) = CRISIS_MENTION_THRESHOLD + 1
    /\ Cardinality(Qualifying(task.analyzed_data)) = CRISIS_MENTION_THRESHOLD
    /\ \A i \in Qualifying(task.analyzed_data) : task.analyzed_data[i].confidence = 85
    /\ Len(task.alerts) = 1
    /\ task.alerts[1].severity = "critical"

\* the items with has_indicators set
Indicated(data) == {i \in 1..Len(data) : data[i].has_indicators}

\* C32: the crisis-keyword rule emits at most one alert per batch, and one
\* iff some item has has_indicators set; the severity is the highest risk
\* level among those items (low < medium < high < critical),
\* requires_immediate_attention holds iff it is high or critical,
\* risk_distribution counts those items per risk level and
\* keywords_detected is the union of their keywords.
C32_CrisisKeywords ==
    task.op = "check_crisis_keywords" =>
        LET data == task.analyzed_data
            hit == Indicated(data)
        IN  /\ Len(task.alerts) = (IF hit = {} THEN 0 ELSE 1)
            /\ Len(task.details) = Len(task.alerts)
            /\ \A k \in 1..Len(task.alerts) :
                  LET alert == task.alerts[k]
                      details == task.details[k]
                  IN  /\ alert.type = <<"crisis", "keywords", "detected">>
                      /\ \E i \in hit : data[i].risk_level = alert.severity
                      /\ \A i \in hit : SeverityOrder(data[i].risk_level)
                                            <= SeverityOrder(alert.severity)
                      /\ alert.requires_immediate_attention
                             <=> alert.severity \in {"high", "critical"}
                      /\ alert.count = Cardinality(hit)
                      /\ \A level \in Severities :
                            LET n == Cardinality({i \in hit : data[i].risk_level = level})
                            IN  IF n = 0
                                THEN level \notin DOMAIN details.risk_distribution
                                ELSE /\ level \in DOMAIN details.risk_distribution
                                     /\ details.risk_distribution[level] = n
                      /\ DOMAIN details.risk_distribution \subseteq Severities
                      /\ details.keywords_detected = UNION {data[i].keywords : i \in hit}
\* risk levels low, high, high next to nothing else: one high alert with
\* immediate attention and the distribution low 1, high 2
C32_Witness ==
    /\ task.op = "check_crisis_keywords"
    /\ Len(task.analyzed_data) = 3
    /\ task.analyzed_data[1].risk_level = "low"
    /\ task.analyzed_data[2].risk_level = "high"
    /\ task.analyzed_data[3].risk_level = "high"
    /\ \A i \in 1..3 : task.analyzed_data[i].has_indicators
    /\ Len(task.alerts) = 1
    /\ task.alerts[1].severity = "high"
    /\ task.alerts[1].requires_immediate_attention
    /\ task.details[1].risk_distribution = [level \in {"low", "high"} |->
                                               IF level = "low" THEN 1 ELSE 2]
    /\ task.details[1].keywords_detected = {"boycott", "lawsuit"}

\* the entries of the window that are younger than age at the time now
Younger(window, age) ==
    LET Kept(entry) == now - entry.timestamp < age
    IN  SelectSeq(window, Kept)
RECURSIVE ValueSum(_)
ValueSum(window) ==
    IF window = <<>> THEN 0 ELSE Head(window).value + ValueSum(Tail(window))

\* C33: the volume rule appends the size of the batch to the window of its
\* (brand, platform) key on every call and leaves every other window as it
\* was; it emits no alert while the pruned window holds fewer than 10
\* samples, and otherwise one alert iff the current volume is above
\* mean(window) * multiplier, with severity critical when current/mean > 5,
\* high when > 3, else medium.
C33_VolumeSpike ==
    task.op = "check_volume_spike" =>
        LET key == task.brand_id \o task.platform
            current == Len(task.analyzed_data)
            old == IF key \in DOMAIN task.before THEN task.before[key] ELSE <<>>
            window == Younger(Append(old, [kind |-> "volume", value |-> current,
                                            timestamp |-> now]),
                              VolumeWindow)
            n == Len(window)
            total == ValueSum(window)
        IN  /\ DOMAIN historical_data = DOMAIN task.before \cup {key}
            /\ historical_data[key] = window
            /\ window[n].value = current /\ window[n].timestamp = now
            /\ \A k \in DOMAIN task.before \ {key} : historical_data[k] = task.before[k]
            /\ n < 10 => task.alerts = <<>>
            /\ n >= 10 =>
                  /\ Len(task.alerts) =
                         (IF current * n > total * VOLUME_SPIKE_MULTIPLIER THEN 1 ELSE 0)
                  /\ \A i \in 1..Len(task.alerts) :
                        /\ task.alerts[i].type = <<"volume", "spike">>
                        /\ task.alerts[i].severity =
                               IF current * n > 5 * total THEN "critical"
                               ELSE IF current * n > 3 * total THEN "high"
                               ELSE "medium"
\* a critical spike on the monitored pair while the window of the second
\* pair holds its own sample
C33_Witness ==
    /\ task.op = "check_volume_spike"
    /\ task.platform = <<"twitter">>
    /\ Len(task.alerts) = 1
    /\ task.alerts[1].severity = "critical"
    /\ Len(historical_data[<<"acme", "twitter">>]) >= 10
    /\ <<"acme", "reddit">> \in DOMAIN task.before
    /\ Len(historical_data[<<"acme", "reddit">>]) = 1

\* C34: the deterioration rule appends the negative ratio of the batch to
\* the 24-hour window, emits no alert while the window holds fewer than 5
\* samples, and otherwise compares the current ratio with the mean of all
\* entries of the window except the one just appended: one alert iff
\* current - mean is above the configured delta (0.3), with severity high
\* when the difference is above 0.5 and medium otherwise.
C34_Deterioration ==
    (task.op = "check_sentiment_deterioration" /\ task.analyzed_data # <<>>) =>
        LET key == task.brand_id \o task.platform \o <<"sentiment">>
            data == task.analyzed_data
            negatives == Cardinality({i \in 1..Len(data) : data[i].overall = "negative"})
            old == IF key \in DOMAIN task.before THEN task.before[key] ELSE <<>>
            window == historical_data[key]
            n == Len(window)
            current == window[n].value
            \* (current - mean) * (n - 1), in hundredths
            scaled == current * (n - 1) - ValueSum(SubSeq(window, 1, n - 1))
        IN  /\ current * Len(data) = 100 * negatives
            /\ window[n].timestamp = now
            /\ SubSeq(window, 1, n - 1) = Younger(old, SentimentWindow)
            /\ n < 5 => task.alerts = <<>>
            /\ n >= 5 =>
                  /\ Len(task.alerts) = (IF scaled > 30 * (n - 1) THEN 1 ELSE 0)
                  /\ \A i \in 1..Len(task.alerts) :
                        /\ task.alerts[i].type = <<"sentiment", "deterioration">>
                        /\ task.alerts[i].severity =
                               IF scaled > 50 * (n - 1) THEN "high" ELSE "medium"
\* a fifth sample that is 0.5 above the mean of the four before it but not
\* above the mean of all five: a medium alert
C34_Witness ==
    /\ task.op = "check_sentiment_deterioration"
    /\ Len(task.analyzed_data) = 2
    /\ Len(historical_data[<<"acme", "twitter", "sentiment">>]) = 5
    /\ ValueSum(historical_data[<<"acme", "twitter", "sentiment">>]) = 50
    /\ Len(task.alerts) = 1
    /\ task.alerts[1].severity = "medium"

----------------------------------------------------------------------------
(* LangChainOrchestrator: properties of the registry (RegistrySpec) *)

\* the agents that the dicts of the registry make eligible for a requirement
Eligible(required_capabilities) ==
    {agent_id \in {registered_agents[i] : i \in 1..Len(registered_agents)} :
        /\ agent_id \in DOMAIN agent_availability
        /\ agent_availability[agent_id]
        /\ agent_id \in DOMAIN agent_performance
        /\ agent_performance[agent_id].success_rate > 30
        /\ agent_capabilities[agent_id] \cap required_capabilities # {}}

\* C35: _select_agents_by_capability returns at most 5 ids, each registered,
\* available, with a success rate above 0.3 and with at least one of the
\* required capabilities, and nobody for an empty requirement; a freshly
\* registered agent is available with success_rate 0.8, avg_response_time
\* 2.0 and tasks_completed 0.
C35_Selection ==
    /\ [][selection' # selection =>
            LET result == selection'.result
            IN  /\ Len(result) <= 5
                /\ \A i \in 1..Len(result) :
                       result[i] \in Eligible(selection'.required_capabilities)
                /\ selection'.required_capabilities = {} => result = <<>>]_vars
    /\ [][\A i \in 1..Len(registered_agents') :
            i > Len(registered_agents) =>
                LET agent_id == registered_agents'[i]
                IN  /\ agent_availability'[agent_id] = TRUE
                    /\ agent_performance'[agent_id] =
                           [success_rate |-> 80, avg_response_time |-> 200,
                            tasks_completed |-> 0]]_vars

\* a selection of five among more than five eligible agents, for a
\* requirement that is not every capability
C35_Witness ==
    /\ selection.called
    /\ Len(selection.result) = 5
    /\ Cardinality(Eligible(selection.required_capabilities)) > 5
    /\ selection.required_capabilities # AgentCapabilities

----------------------------------------------------------------------------
(* Approval policy: the range of the risk score (DefaultPolicySpec) *)

\* the risk analysis of the recorded call, when it returned one
RiskOfCall == CalculateComprehensiveRiskScore(policy.input, policy.fault)

\* C36: for a quality_score in [0,1] overall_risk_score is at most 0.60;
\* under the default thresholds the decision of the high band is never
\* returned, and pending_approval comes only from the contextual band or
\* from the except branch.
C36_RiskScoreRange ==
    policy.called =>
        /\ ~RiskOfCall.raised => RiskOfCall.overall_risk_score <= 6000
        /\ policy.result.decision.has_risk_analysis =>
               policy.result.decision.overall_risk_score <= 6000
        /\ ~(/\ policy.result.decision.approval_status = "pending_approval"
             /\ policy.result.decision.confidence = "high")
        /\ policy.result.decision.approval_status = "pending_approval" =>
               \/ policy.result.decision.error
               \/ /\ policy.result.decision.confidence = "medium"
                  /\ policy.result.decision.overall_risk_score >= 3000
                  /\ policy.result.decision.overall_risk_score <= 7000

\* the largest score: quality 0, a negative mention of high engagement in a
\* crisis, and a content risk at its cap; the contextual band escalates it
C36_Witness ==
    /\ policy.called
    /\ policy.input.quality = [has_score |-> TRUE, quality_score |-> 0]
    /\ policy.result.decision.overall_risk_score = 6000
    /\ policy.result.decision.approval_status = "pending_approval"
    /\ policy.result.decision.confidence = "medium"

----------------------------------------------------------------------------
(* LangChainBaseAgent: properties of shutdown (LifecycleSpec) *)

\* after shutdown() the status is SHUTDOWN
StatusStaysShutdown == [](shutdown_called => agent_status = "shutdown")

\* after shutdown() the loop of start() ends
LoopTerminates == shutdown_called ~> start_pc = "ended"

\* a loop that has seen SHUTDOWN takes no message
NothingHandledAfterEnd ==
    [][start_pc = "ended" => start_pc' = "ended" /\ inbox' >= inbox]_vars

\* C37: once shutdown() has been called the status stays SHUTDOWN and the
\* loop of start() terminates, whatever think_and_act or handle_message is
\* in flight; no message is handled after the loop has observed SHUTDOWN.
C37_ShutdownIsFinal ==
    StatusStaysShutdown /\ LoopTerminates /\ NothingHandledAfterEnd

----------------------------------------------------------------------------
(* LangChainOrchestrator: active_tasks and the counters (OrchestrationSpec) *)

\* the counters of the metrics add up
CountersAddUp ==
    orchestration_metrics.total_tasks =
        orchestration_metrics.successful_tasks + orchestration_metrics.failed_tasks

\* C38: active_tasks holds only tasks whose status is executing: a task
\* whose call of orchestrate_task_strategically has returned, completed or
\* failed, is not in active_tasks; and total_tasks = successful_tasks +
\* failed_tasks after every call.
C38_ActiveTasksAreExecuting ==
    /\ \A i \in active_tasks : orchestration_tasks[i].status = "executing"
    /\ \A i \in 1..Len(orchestration_tasks) :
           orchestration_tasks[i].at = "returned" => i \notin active_tasks
    /\ CountersAddUp

----------------------------------------------------------------------------
(* Workflow graph: the success flag of the report (Spec) *)

\* seq is the beginning of longer
IsPrefix(seq, longer) ==
    /\ Len(seq) <= Len(longer)
    /\ \A i \in 1..Len(seq) : seq[i] = longer[i]

\* a node has just run and failed
NodeFailed ==
    /\ supersteps' = supersteps + 1
    /\ last'.outcome = "failed"

\* C39: the success flag of the workflow report is true exactly when
\* failed_steps is empty at the end of the run: a node execution that fails
\* is entered in failed_steps and stays there, also when the node succeeds
\* later, so the report of such a run has success false; the report of a
\* run that aborted after collecting no mention without a failure has
\* success true.
C39_SuccessFlag ==
    /\ [](report.kind = "workflow" =>
            /\ report.failed_steps = state.failed_steps
            /\ (report.success <=> (Len(state.failed_steps) = 0))
            /\ ((route = "abort" /\ Len(state.failed_steps) = 0) => report.success))
    /\ [][NodeFailed => Contains(state'.failed_steps, last'.node)]_vars
    /\ [][(pc \in Nodes \cup Routers \cup {"END"}) =>
            IsPrefix(state.failed_steps, state'.failed_steps)]_vars

\* the report of a run whose first data collection failed and whose retry
\* succeeded
C39_Witness ==
    /\ report.kind = "workflow"
    /\ ~report.success
    /\ Contains(report.failed_steps, "collect_data")
    /\ Contains(report.completed_steps, "collect_data")

\* the report of a run that aborted with no mention and no failure
AbortedWithoutFailure ==
    /\ report.kind = "workflow"
    /\ report.success
    /\ route = "abort"
    /\ state.collected_data.is_dict
    /\ Len(state.collected_data.mentions) = 0

----------------------------------------------------------------------------
(* Alert management agent: acknowledging and resolving (AlertSpec) *)

\* how many alerts are archived
RECURSIVE ArchivedOf(_, _)
ArchivedOf(history, brands) ==
    IF brands = {} THEN 0
    ELSE LET b == CHOOSE x \in brands : TRUE
         IN  Len(history[b]) + ArchivedOf(history, brands \ {b})

Archived(history) == ArchivedOf(history, DOMAIN history)

\* the alert is the last one in the history of its brand
ArchivedLast(history, alert) ==
    /\ alert.brand_id \in DOMAIN history
    /\ Len(history[alert.brand_id]) > 0
    /\ history[alert.brand_id][Len(history[alert.brand_id])] = alert

\* C40: acknowledge_alert and resolve_alert with an id that is not in
\* active_alerts return false and change neither active_alerts nor
\* alert_history; acknowledge_alert on an active id returns true, sets the
\* acknowledgement fields and keeps the alert active; resolve_alert on an
\* active id returns true, removes the alert and archives it once, so a
\* second resolution of the same id returns false and archives nothing.
C40_AcknowledgeAndResolve ==
    /\ [][task'.op \in {"acknowledge_alert", "resolve_alert"} =>
            LET alert_id == task'.alert_id
            IN  IF alert_id \notin DOMAIN active_alerts
                THEN /\ task'.result = FALSE
                     /\ active_alerts' = active_alerts
                     /\ alert_history' = alert_history
                ELSE IF task'.op = "acknowledge_alert"
                THEN /\ task'.result = TRUE
                     /\ DOMAIN active_alerts' = DOMAIN active_alerts
                     /\ active_alerts'[alert_id].acknowledged = TRUE
                     /\ active_alerts'[alert_id].acknowledged_by \in Operators
                     /\ active_alerts'[alert_id].acknowledged_at = now
                     /\ [active_alerts'[alert_id] EXCEPT
                            !.acknowledged = active_alerts[alert_id].acknowledged,
                            !.acknowledged_by = active_alerts[alert_id].acknowledged_by,
                            !.acknowledged_at = active_alerts[alert_id].acknowledged_at]
                        = active_alerts[alert_id]
                     /\ \A id \in DOMAIN active_alerts \ {alert_id} :
                            active_alerts'[id] = active_alerts[id]
                     /\ alert_history' = alert_history
                ELSE /\ task'.result = TRUE
                     /\ alert_id \notin DOMAIN active_alerts'
                     /\ \A id \in DOMAIN active_alerts \ {alert_id} :
                            /\ id \in DOMAIN active_alerts'
                            /\ active_alerts'[id] = active_alerts[id]
                     /\ Archived(alert_history') = Archived(alert_history) + 1
                     /\ ArchivedLast(alert_history',
                                     [active_alerts[alert_id] EXCEPT
                                         !.resolved = TRUE,
                                         !.resolved_by = "ops",
                                         !.resolved_at = now])]_vars
    /\ [][(/\ task.op = "resolve_alert" /\ task.result
            /\ task'.op = "resolve_alert" /\ task'.alert_id = task.alert_id) =>
               (~task'.result /\ alert_history' = alert_history)]_vars

\* an acknowledged alert was resolved, and the second resolution of its id
\* has returned false
C40_Witness ==
    /\ task.op = "resolve_alert"
    /\ ~task.result
    /\ \E b \in DOMAIN alert_history : \E i \in 1..Len(alert_history[b]) :
           /\ alert_history[b][i].alert_id = task.alert_id
           /\ alert_history[b][i].acknowledged
           /\ alert_history[b][i].resolved
           /\ \A j \in 1..Len(alert_history[b]) :
                  alert_history[b][j].alert_id = task.alert_id => j = i
====
